---- MODULE Spec2Model ----
(***************************************************************************)
(* Convex-projective (Hilbert metric) domain, its chord engine, the        *)
(* Hilbert-bisector sketch loop and the Bowyer-Watson triangulation of     *)
(* the Klein model, as state machines.                                     *)
(*                                                                         *)
(* Numbers.  Model coordinates are integers on a grid whose step is the    *)
(* comparison tolerance EPSILON (linalg: const EPSILON = 0.0001), so the   *)
(* tolerance is one grid step.  A coordinate can also be NaN: the code's   *)
(* comparisons "Math.abs(a - b) > epsilon" are false on NaN, which makes   *)
(* a NaN vector equal to every vector.  Quotients (ray parameters,         *)
(* intersection points) are kept as exact fractions.                       *)
(***************************************************************************)
EXTENDS Integers, Sequences, FiniteSets, TLC

(***************************************************************************)
(* Bounds                                                                  *)
(***************************************************************************)
MaxImages == 4

MaxCache == 6

MaxPoints == 3

MaxTriangles == 3

(***************************************************************************)
(* linalg: Vector, Matrix.equals                                           *)
(***************************************************************************)
EPSILON == 1

Abs(n) == IF n < 0 THEN -n ELSE n

Vec(px, py) == [x |-> px, y |-> py, kind |-> "num"]

NaNVec == [x |-> 0, y |-> 0, kind |-> "nan"]

NullVec == [x |-> 0, y |-> 0, kind |-> "null"]

\* Matrix.equals(other, epsilon): an entry pair fails only when
\* Math.abs(a - b) > epsilon, and that test is false when a or b is NaN.
VecEquals(u, v, eps) ==
    \/ u.kind = "nan"
    \/ v.kind = "nan"
    \/ /\ ~(Abs(u.x - v.x) > eps)
       /\ ~(Abs(u.y - v.y) > eps)

(***************************************************************************)
(* geometry: Edge                                                          *)
(***************************************************************************)
Edge(a, b) == [v1 |-> a, v2 |-> b]

NullEdge == Edge(NullVec, NullVec)

EdgeEquals(e, o) ==
    /\ (VecEquals(e.v1, o.v1, EPSILON) \/ VecEquals(e.v1, o.v2, EPSILON))
    /\ (VecEquals(e.v2, o.v1, EPSILON) \/ VecEquals(e.v2, o.v2, EPSILON))

(***************************************************************************)
(* ConvexProjectiveModel: reference triangle and triangle images           *)
(***************************************************************************)
p1 == Vec(8, 0)

p2 == Vec(-4, 8)

p3 == Vec(-4, -8)

\* Vertices of the images of the reference triangle under the group
\* elements: q1 is the mirror image of p1 under r1, q2 the mirror image of
\* p2 under r2, uu the image of q2 under r1 and vv the image of q1 under
\* r2.  ss is the image of q2 under r1 for a parameter that pushes it
\* within EPSILON of p3 (a sliver triangle).
q1 == Vec(-16, 0)

q2 == Vec(8, -16)

uu == Vec(-16, -16)

vv == Vec(-4, -24)

ss == Vec(-5, -9)

\* One entry of the list g of bulgeSubgroup, after its deduplication
\* filter, together with the homogenized images P1, P2, P3 of p1, p2, p3:
\* identity says g[i].equals(Matrix.identity(3), EPSILON).
Tile(id, a, b, c) == [identity |-> id, P |-> <<a, b, c>>]

\* The bulge parameters: "zero" is 0, the default of the constructor, for
\* which the Cartan matrix has the entry -1/0 and r1 and its products have
\* infinite and NaN entries; "regular" is a parameter for which the images
\* tile a polygon; "large" is a parameter for which an image is a sliver.
Params == { "zero", "regular", "large" }

\* model.ts 535-546: r1, r2 (r3 is left out), then the products g[i] * r_j
\* in the order of the loop (r1 * r1 is the identity, r1 * r2, r2 * r1),
\* deduplicated.
Elements(t) ==
    IF t = "zero"
    THEN << Tile(FALSE, NaNVec, NaNVec, NaNVec),
            Tile(FALSE, p1, q2, p3),
            Tile(TRUE, p1, p2, p3),
            Tile(FALSE, NaNVec, NaNVec, NaNVec),
            Tile(FALSE, vv, q2, p3) >>
    ELSE << Tile(FALSE, q1, p2, p3),
            Tile(FALSE, p1, q2, p3),
            Tile(TRUE, p1, p2, p3),
            IF t = "large" THEN Tile(FALSE, q1, ss, p3) ELSE Tile(FALSE, q1, uu, p3),
            Tile(FALSE, vv, q2, p3) >>

Min(a, b) == IF a < b THEN a ELSE b

\* model.ts 509-547, with the number of elements bounded by MaxImages in
\* place of STEPS.
bulgeSubgroup(t) == SubSeq(Elements(t), 1, Min(MaxImages, Len(Elements(t))))

(***************************************************************************)
(* ConvexProjectiveModel.setBulge                                          *)
(***************************************************************************)
RefEdges == << Edge(p1, p2), Edge(p2, p3), Edge(p3, p1) >>

\* Array.prototype.splice(start, 1) on a sequence, start 0-based: a
\* negative start counts from the end and is clamped to 0.
Splice(b, start) ==
    LET n  == Len(b)
        st == IF start < 0
              THEN (IF n + start < 0 THEN 0 ELSE n + start)
              ELSE (IF start > n THEN n ELSE start)
    IN IF st < n
       THEN [k \in 1..(n-1) |-> IF k <= st THEN b[k] ELSE b[k+1]]
       ELSE b

\* model.ts 596-601: one dupEdges entry per interior edge the edge equals.
DupMatches(edge, interior, j) ==
    LET matched == SelectSeq(SubSeq(interior, j, Len(interior)),
                             LAMBDA e : EdgeEquals(edge, e))
    IN [k \in 1..Len(matched) |-> edge]

EdgeFound(edge, interior) ==
    \E j \in 1..Len(interior) : EdgeEquals(edge, interior[j])

\* model.ts 615-619: the inner loop over dupEdges for the boundary entry
\* read at index i (0-based); every match splices at the current i and
\* decrements it.  Returns the boundary and the index.  On an emptied
\* boundary the remaining matches splice nothing and only decrement i.
RECURSIVE RemoveInner(_, _, _, _, _)
RemoveInner(b, i, edge, dup, j) ==
    IF j > Len(dup) THEN [b |-> b, i |-> i]
    ELSE IF Len(b) = 0
         THEN [b |-> b,
               i |-> i - Cardinality({k \in j..Len(dup) : EdgeEquals(edge, dup[k])})]
    ELSE IF EdgeEquals(edge, dup[j])
         THEN RemoveInner(Splice(b, i), i - 1, edge, dup, j + 1)
         ELSE RemoveInner(b, i, edge, dup, j + 1)

\* model.ts 612-621: the loop over the boundary; boundary[i] is undefined
\* for a negative i and is then skipped, up to index 0.
RECURSIVE RemoveDup(_, _, _)
RemoveDup(b, i, dup) ==
    IF ~(i < Len(b)) THEN b
    ELSE IF i < 0 THEN RemoveDup(b, 0, dup)
    ELSE LET r == RemoveInner(b, i, b[i + 1], dup, 1)
         IN RemoveDup(r.b, r.i + 1, dup)

SeqConcat3(a, b, c) == a \o b \o c

\* AddTriangle without the push of the new edges onto interior.
AddTriangleBoundaryOnly(m, P) ==
    LET newTriangle == << Edge(P[1], P[2]), Edge(P[2], P[3]), Edge(P[3], P[1]) >>
        dupEdges == SeqConcat3(DupMatches(newTriangle[1], m.interior, 1),
                               DupMatches(newTriangle[2], m.interior, 1),
                               DupMatches(newTriangle[3], m.interior, 1))
        newEdges == SelectSeq(newTriangle, LAMBDA e : ~EdgeFound(e, m.interior))
    IN IF Len(dupEdges) = 3 THEN m
       ELSE [boundary |-> RemoveDup(m.boundary \o newEdges, 0, dupEdges),
             interior |-> m.interior]

\* model.ts 581-621: one iteration of the loop over g for an element that
\* is not the identity.  m is [boundary, interior].
AddTriangle(m, P) ==
    LET newTriangle == << Edge(P[1], P[2]), Edge(P[2], P[3]), Edge(P[3], P[1]) >>
        dupEdges == SeqConcat3(DupMatches(newTriangle[1], m.interior, 1),
                               DupMatches(newTriangle[2], m.interior, 1),
                               DupMatches(newTriangle[3], m.interior, 1))
        newEdges == SelectSeq(newTriangle, LAMBDA e : ~EdgeFound(e, m.interior))
    IN IF Len(dupEdges) = 3 THEN m
       ELSE [boundary |-> RemoveDup(m.boundary \o newEdges, 0, dupEdges),
             interior |-> m.interior \o newEdges]

\* model.ts 564-622: the loop over g from index i.
RECURSIVE ProcessImages(_, _, _)
ProcessImages(m, g, i) ==
    IF i > Len(g) THEN m
    ELSE IF g[i].identity THEN ProcessImages(m, g, i + 1)
    ELSE ProcessImages(AddTriangle(m, g[i].P), g, i + 1)

\* setBulge without the reset of boundary and interior to the reference
\* triangle: an incremental update of the model it is called on.
setBulgeIncremental(m, t) ==
    ProcessImages(m, bulgeSubgroup(t), 1)

\* model.ts 552-623.  m is the model before the call.
setBulge(m, t) ==
    ProcessImages([boundary |-> RefEdges, interior |-> RefEdges], bulgeSubgroup(t), 1)

(***************************************************************************)
(* Exact fractions for the quotients of rayCast.  <<n, d>> with d > 0 is   *)
(* n/d; <<1, 0>> and <<-1, 0>> are +Infinity and -Infinity (x/0) and       *)
(* <<0, 0>> is NaN (0/0, or any operand NaN).                              *)
(***************************************************************************)
Sign(n) == IF n > 0 THEN 1 ELSE IF n < 0 THEN -1 ELSE 0

NaNFrac == <<0, 0>>

PosInf == <<1, 0>>

NegInf == <<-1, 0>>

Frac(n, d) ==
    IF d = 0 THEN <<Sign(n), 0>>
    ELSE IF d < 0 THEN <<-n, -d>> ELSE <<n, d>>

FracNeg(f) == <<-f[1], f[2]>>

IntFrac(n) == <<n, 1>>

IsNaNFrac(f) == f[1] = 0 /\ f[2] = 0

\* a < b and a <= b of IEEE numbers: false when an operand is NaN.
FracLess(a, b) ==
    /\ ~IsNaNFrac(a)
    /\ ~IsNaNFrac(b)
    /\ IF a[2] = 0 /\ b[2] = 0 THEN a[1] < b[1]
       ELSE a[1] * b[2] < b[1] * a[2]

FracLeq(a, b) ==
    /\ ~IsNaNFrac(a)
    /\ ~IsNaNFrac(b)
    /\ IF a[2] = 0 /\ b[2] = 0 THEN a[1] <= b[1]
       ELSE a[1] * b[2] <= b[1] * a[2]

FracEq(a, b) == FracLeq(a, b) /\ FracLeq(b, a)

\* A point with fraction coordinates (the third coordinate is 1).
RPoint(fx, fy) == [x |-> fx, y |-> fy]

VecPoint(v) ==
    IF v.kind = "num" THEN RPoint(IntFrac(v.x), IntFrac(v.y))
    ELSE RPoint(NaNFrac, NaNFrac)

RPointEq(a, b) == FracEq(a.x, b.x) /\ FracEq(a.y, b.y)

\* Vector.subtract
VecSubtract(a, b) ==
    IF a.kind = "num" /\ b.kind = "num" THEN Vec(a.x - b.x, a.y - b.y)
    ELSE NaNVec

(***************************************************************************)
(* ConvexProjectiveModel.rayCast, chord                                    *)
(***************************************************************************)
\* model.ts 466-485: returns [t1, t2, ip].
rayCast(p, ray, q, w) ==
    IF p.kind # "num" \/ ray.kind # "num" \/ q.kind # "num" \/ w.kind # "num"
    THEN [t1 |-> NaNFrac, t2 |-> NaNFrac, ip |-> RPoint(NaNFrac, NaNFrac)]
    ELSE
    LET px == p.x
        py == p.y
        rayx == ray.x
        rayy == ray.y
        qx == q.x
        qy == q.y
        wx == w.x
        wy == w.y
    IN [ip |-> RPoint(
                 FracNeg(Frac(-rayx * qy * wx + rayx * qx * wy - rayy * wx * px + rayx * wx * py,
                              rayy * wx - rayx * wy)),
                 FracNeg(Frac(rayy * qy * wx - rayy * qx * wy + rayy * wy * px - rayx * wy * py,
                              -rayy * wx + rayx * wy))),
        t1 |-> FracNeg(Frac(qy * wx - qx * wy + wy * px - wx * py,
                            -rayy * wx + rayx * wy)),
        t2 |-> FracNeg(Frac(rayy * qx - rayx * qy - rayy * px + rayx * py,
                            rayy * wx - rayx * wy))]

\* model.ts 649-659 and 679-689: the update of tMin, tMax, a, b and
\* foundEdges for one ray cast r.
RecordHit(acc, r) ==
    IF FracLeq(IntFrac(0), r.t2) /\ FracLeq(r.t2, IntFrac(1))
    THEN [acc EXCEPT
            !.tMin = IF FracLess(r.t1, acc.tMin) THEN r.t1 ELSE @,
            !.a    = IF FracLess(r.t1, acc.tMin) THEN r.ip ELSE @,
            !.tMax = IF FracLess(acc.tMax, r.t1) THEN r.t1 ELSE @,
            !.b    = IF FracLess(acc.tMax, r.t1) THEN r.ip ELSE @,
            !.foundEdges = @ + 1]
    ELSE acc

\* model.ts 645-660: the loop over the cached edges, from 0-based index i.
RECURSIVE ScanCache(_, _, _, _, _)
ScanCache(acc, cache, x, ray, i) ==
    IF ~(i < Len(cache) /\ acc.foundEdges < 2) THEN acc
    ELSE LET q == cache[i + 1].v1
             r == rayCast(x, ray, q, VecSubtract(cache[i + 1].v2, q))
         IN ScanCache(RecordHit([acc EXCEPT !.cacheTested = @ + 1], r), cache, x, ray, i + 1)

\* model.ts 663-690: the loop over the boundary, from 0-based index i;
\* an edge with -1 <= t2 <= 2 is pushed onto the chord cache.
RECURSIVE ScanBoundary(_, _, _, _, _)
ScanBoundary(acc, b, x, ray, i) ==
    IF ~(i < Len(b) /\ acc.foundEdges < 2) THEN acc
    ELSE LET q == b[i + 1].v1
             w == VecSubtract(b[i + 1].v2, q)
             r == rayCast(x, ray, q, w)
             pushed == IF FracLeq(IntFrac(-1), r.t2) /\ FracLeq(r.t2, IntFrac(2))
                       THEN [acc EXCEPT !.cache = Append(@, b[i + 1])]
                       ELSE acc
             counted == [pushed EXCEPT !.scanned = @ + 1]
         IN ScanBoundary(RecordHit(counted, r), b, x, ray, i + 1)

\* chord that answers from the cached edges alone once the cache holds
\* an edge, without the loop over the boundary.
chordNoFallback(b, cache, x, y) ==
    LET ray == VecSubtract(x, y)
        acc0 == [tMin |-> PosInf, tMax |-> NegInf,
                 a |-> VecPoint(x), b |-> VecPoint(y),
                 foundEdges |-> 0, cache |-> cache,
                 cacheFound |-> 0, scanned |-> 0, cacheTested |-> 0]
        acc1 == IF cache[1] # NullEdge
                THEN ScanCache(acc0, cache, x, ray, 0)
                ELSE acc0
        acc2 == [acc1 EXCEPT !.cacheFound = acc1.foundEdges]
    IN IF Len(cache) > 2 THEN acc2 ELSE ScanBoundary(acc2, b, x, ray, 0)

\* model.ts 636-692.  Returns the chord's end points a and b with the
\* final tMin, tMax and foundEdges, the chord cache after the call, the
\* value of foundEdges after the cache loop, the number of cached edges
\* the cache loop examined and the number of boundary edges the boundary
\* loop examined.
chord(b, cache, x, y) ==
    LET ray == VecSubtract(x, y)
        acc0 == [tMin |-> PosInf, tMax |-> NegInf,
                 a |-> VecPoint(x), b |-> VecPoint(y),
                 foundEdges |-> 0, cache |-> cache,
                 cacheFound |-> 0, scanned |-> 0, cacheTested |-> 0]
        acc1 == IF cache[1] # NullEdge
                THEN ScanCache(acc0, cache, x, ray, 0)
                ELSE acc0
        acc2 == [acc1 EXCEPT !.cacheFound = acc1.foundEdges]
    IN ScanBoundary(acc2, b, x, ray, 0)

(***************************************************************************)
(* ConvexProjectiveModel as a state machine                                *)
(***************************************************************************)
VARIABLES
    bulge,       \* the parameter of the last setBulge
    boundary,    \* Edge[]
    interior,    \* Edge[]
    chordCache,  \* the chordCache array
    chordRes,    \* what the last chord call since the last rebuild returned
    sketch,      \* the Hilbert-bisector sketch's variables (NoSketch: no sketch runs)
    tess,        \* the arguments and the result of the Bowyer-Watson code (NoTess: not in use)
    call,        \* the arguments and the result of one call of a pure function (NoCall: not in use)
    disk         \* the fields of a DiskModel (NoDisk: not in use)

vars == <<bulge, boundary, interior, chordCache, chordRes, sketch, tess, call, disk>>

\* The pairs x, y of chord queries: the line through (0,0) and (-1,2)
\* passes through p2, the line through (0,0) and (2,0) through p1.
Queries == { <<Vec(0, 0), Vec(-1, 2)>>, <<Vec(0, 0), Vec(2, 0)>>,
             <<Vec(2, 0), Vec(-1, 2)>> }

NoChord == [called |-> FALSE]

EmptyModel == [boundary |-> << >>, interior |-> << >>]

NoSketch == [running |-> FALSE]

NoTess == [mode |-> "none"]

NoCall == [op |-> "none"]

NoDisk == [inUse |-> FALSE]

\* Field initialisers, then the constructor's setBulge(bulge).
Init ==
    \E t \in Params :
      \E m \in { setBulge(EmptyModel, t) } :
        /\ bulge = t
        /\ boundary = m.boundary
        /\ interior = m.interior
        /\ chordCache = <<NullEdge, NullEdge>>
        /\ chordRes = NoChord
        /\ sketch = NoSketch
        /\ tess = NoTess
        /\ call = NoCall
        /\ disk = NoDisk

SetBulge(t) ==
    /\ \E m \in { setBulge([boundary |-> boundary, interior |-> interior], t) } :
          /\ boundary' = m.boundary
          /\ interior' = m.interior
    /\ bulge' = t
    /\ chordRes' = NoChord
    /\ UNCHANGED <<chordCache, sketch, tess, call, disk>>

\* model.ts 628-631
ClearChordCache ==
    /\ chordCache' = <<NullEdge, NullEdge>>
    /\ UNCHANGED <<bulge, boundary, interior, chordRes, sketch, tess, call, disk>>

\* What is kept of a chord call: its arguments and what chord returned.
ChordResult(x, y, r) ==
    [called |-> TRUE, x |-> x, y |-> y, a |-> r.a, b |-> r.b,
     tMin |-> r.tMin, tMax |-> r.tMax, foundEdges |-> r.foundEdges,
     cacheFound |-> r.cacheFound, scanned |-> r.scanned,
     cacheTested |-> r.cacheTested]

Chord(x, y) ==
    \E r \in { chord(boundary, chordCache, x, y) } :
       /\ Len(r.cache) <= MaxCache
       /\ chordCache' = r.cache
       /\ chordRes' = ChordResult(x, y, r) @@ [cacheBefore |-> chordCache]
       /\ UNCHANGED <<bulge, boundary, interior, sketch, tess, call, disk>>

Next ==
    \/ \E t \in Params : SetBulge(t)
    \/ ClearChordCache
    \/ \E q \in Queries : Chord(q[1], q[2])

Spec == Init /\ [][Next]_vars

(***************************************************************************)
(* The Hilbert-bisector sketch (hilbertBisectorSketch): setup, the draw     *)
(* loop, the mouse handlers and the Bisector button.  One canvas pixel is  *)
(* drawScale grid steps of the model.                                      *)
(***************************************************************************)
CanvasPoint(cx, cy) == [x |-> cx, y |-> cy]

\* model.ts 764-766, with drawOrigin o and drawScale sc
modelToCanvas(o, sc, v) == CanvasPoint(sc * v.x + o.x, (-sc) * v.y + o.y)

\* model.ts 768-770
canvasToModel(o, sc, c) == Vec((c.x - o.x) \div sc, -((c.y - o.y) \div sc))

\* The positions of the mouse.
MousePositions == { CanvasPoint(400, 400), CanvasPoint(396, 392), CanvasPoint(408, 400) }

\* The values of the bulge slider (its range is -4..4: the parameter is
\* never 0).
SliderValues == { "regular", "large" }

\* The sketch's view of the program: the model object's fields, the
\* sketch's own variables, and the calls on the model made by the handler
\* that runs (calls), each with whether the chord cache then held an edge
\* cached before the last setBulge (stale).
SketchState ==
    [bulge |-> bulge, boundary |-> boundary, interior |-> interior,
     chordCache |-> chordCache, chordRes |-> chordRes,
     prevBulge |-> sketch.prevBulge, slider |-> sketch.slider,
     drawChord |-> sketch.drawChord, draggables |-> sketch.draggables,
     dragging |-> sketch.dragging, pModel |-> sketch.pModel,
     qModel |-> sketch.qModel, drawOrigin |-> sketch.drawOrigin,
     drawScale |-> sketch.drawScale, stale |-> sketch.stale, calls |-> << >>]

\* model.setBulge(t) called by the sketch.
CallSetBulge(S, t) ==
    LET m  == setBulge([boundary |-> S.boundary, interior |-> S.interior], t)
        S1 == [S EXCEPT !.boundary = m.boundary, !.interior = m.interior,
                        !.bulge = t, !.chordRes = NoChord,
                        !.stale = Len(S.chordCache) > 2]
    IN [S1 EXCEPT !.calls = Append(@, [op |-> "setBulge", stale |-> S1.stale,
                                       cacheKept |-> S1.chordCache = S.chordCache])]

\* model.clearChordCache() called by the sketch.
CallClearChordCache(S) ==
    LET S1 == [S EXCEPT !.chordCache = <<NullEdge, NullEdge>>, !.stale = FALSE]
    IN [S1 EXCEPT !.calls = Append(@, [op |-> "clearChordCache", stale |-> S1.stale,
                                       cacheKept |-> S1.chordCache = S.chordCache])]

\* model.chord(x, y) called by the sketch, directly or through d.
CallChord(S, x, y) ==
    LET r == chord(S.boundary, S.chordCache, x, y)
    IN [S EXCEPT !.chordCache = r.cache,
                 !.chordRes = ChordResult(x, y, r),
                 !.calls = Append(@, [op |-> "chord", stale |-> S.stale,
                                      cacheKept |-> r.cache = S.chordCache])]

\* part_010 132-140 without the call of clearChordCache.
BulgeChangedNoClear(S, t) ==
    LET S1 == [S EXCEPT !.prevBulge = t]
        S2 == CallSetBulge(S1, t)
    IN [S2 EXCEPT !.drawChord = TRUE]

\* part_010 132-140: the branch of draw taken when the slider's value is
\* not prevBulge.
BulgeChanged(S, t) ==
    LET S1 == [S EXCEPT !.prevBulge = t]
        S2 == CallSetBulge(S1, t)
        S3 == [S2 EXCEPT !.drawChord = TRUE]
    IN CallClearChordCache(S3)

\* part_010 148-155 with geometry.ts 139-145: a draggable that is being
\* dragged moves to the mouse, and the chord is to be redrawn.
UpdateDraggables(S, mouse) ==
    [S EXCEPT !.draggables = [k \in 1..2 |-> IF S.dragging[k] THEN mouse ELSE @[k]],
              !.drawChord = @ \/ S.dragging[1] \/ S.dragging[2]]

\* part_010 157-170
RedrawChord(S) ==
    LET pM == canvasToModel(S.drawOrigin, S.drawScale, S.draggables[1])
        qM == canvasToModel(S.drawOrigin, S.drawScale, S.draggables[2])
        S1 == [S EXCEPT !.drawChord = FALSE, !.pModel = pM, !.qModel = qM]
    IN CallChord(S1, pM, qM)

\* part_010 123-171: one frame.
drawFrame(S, mouse) ==
    LET S1 == IF S.slider # S.prevBulge THEN BulgeChanged(S, S.slider) ELSE S
        S2 == UpdateDraggables(S1, mouse)
    IN IF S2.drawChord THEN RedrawChord(S2) ELSE S2

\* part_010 111-121 with model.ts 884-910: the Bisector button's handler,
\* up to the first probe of drawBisector: the point (xMin, yMin) and the
\* two distances d(p, r) and d(r, q), each a chord query.
drawBisector(S) ==
    LET pCanvas == modelToCanvas(S.drawOrigin, S.drawScale, S.pModel)
        qCanvas == modelToCanvas(S.drawOrigin, S.drawScale, S.qModel)
        rCanvas == CanvasPoint(Min(pCanvas.x, qCanvas.x) - 1, Min(pCanvas.y, qCanvas.y) - 1)
        rModel  == canvasToModel(S.drawOrigin, S.drawScale, rCanvas)
    IN CallChord(CallChord(S, S.pModel, rModel), rModel, S.qModel)

\* The program's variables after a handler that ends in the state S.
Becomes(S) ==
    /\ Len(S.chordCache) <= MaxCache
    /\ bulge' = S.bulge
    /\ boundary' = S.boundary
    /\ interior' = S.interior
    /\ chordCache' = S.chordCache
    /\ chordRes' = S.chordRes
    /\ sketch' = [running |-> TRUE, prevBulge |-> S.prevBulge, slider |-> S.slider,
                  drawChord |-> S.drawChord, draggables |-> S.draggables,
                  dragging |-> S.dragging, pModel |-> S.pModel, qModel |-> S.qModel,
                  drawOrigin |-> S.drawOrigin, drawScale |-> S.drawScale,
                  stale |-> S.stale, calls |-> S.calls]
    /\ UNCHANGED <<tess, call, disk>>

\* part_010 12-31 and 32-62: the sketch's initialisers and setup, which
\* constructs the model with the default parameter 0.
SketchInit ==
    \E m \in { setBulge(EmptyModel, "zero") } :
        /\ bulge = "zero"
        /\ boundary = m.boundary
        /\ interior = m.interior
        /\ chordCache = <<NullEdge, NullEdge>>
        /\ chordRes = NoChord
        /\ sketch = [running |-> TRUE, prevBulge |-> "unset", slider |-> "regular",
                     drawChord |-> TRUE,
                     draggables |-> << modelToCanvas(CanvasPoint(400, 400), 4, Vec(0, 0)),
                                       modelToCanvas(CanvasPoint(400, 400), 4, Vec(-1, 2)) >>,
                     dragging |-> <<FALSE, FALSE>>,
                     pModel |-> Vec(0, 0), qModel |-> Vec(-1, 2),
                     drawOrigin |-> CanvasPoint(400, 400), drawScale |-> 4,
                     stale |-> FALSE, calls |-> << >>]
        /\ tess = NoTess
        /\ call = NoCall
        /\ disk = NoDisk

\* The draw loop runs a frame; the mouse is somewhere.
Draw ==
    \E mouse \in MousePositions :
        \E S \in { drawFrame(SketchState, mouse) } : Becomes(S)

\* The user moves the bulge slider.
SliderInput(v) ==
    /\ v # sketch.slider
    /\ sketch' = [sketch EXCEPT !.slider = v, !.calls = << >>]
    /\ UNCHANGED <<bulge, boundary, interior, chordCache, chordRes, tess, call, disk>>

\* part_010 173-176 with geometry.ts 162-170: a press on a draggable.
MousePressed(mouse) ==
    /\ \E k \in 1..2 : sketch.draggables[k] = mouse /\ ~sketch.dragging[k]
    /\ sketch' = [sketch EXCEPT
                    !.dragging = [k \in 1..2 |-> @[k] \/ sketch.draggables[k] = mouse],
                    !.calls = << >>]
    /\ UNCHANGED <<bulge, boundary, interior, chordCache, chordRes, tess, call, disk>>

\* part_010 178-181
MouseReleased ==
    /\ sketch.dragging # <<FALSE, FALSE>>
    /\ sketch' = [sketch EXCEPT !.dragging = <<FALSE, FALSE>>, !.calls = << >>]
    /\ UNCHANGED <<bulge, boundary, interior, chordCache, chordRes, tess, call, disk>>

\* A press on the Bisector button.
BisectorPressed ==
    \E S \in { drawBisector(SketchState) } : Becomes(S)

SketchNext ==
    \/ Draw
    \/ \E v \in SliderValues : SliderInput(v)
    \/ \E mouse \in MousePositions : MousePressed(mouse)
    \/ MouseReleased
    \/ BisectorPressed

SketchSpec == SketchInit /\ [][SketchNext]_vars

(***************************************************************************)
(* KleinModel.tesselate (Bowyer-Watson) with Simplex and its circumcircle. *)
(* Vectors are <<x, y, 1>> with integer coordinates; objects compared by   *)
(* reference (triangles, edges) carry the identity they were created with. *)
(***************************************************************************)
V3(a, b) == <<a, b, 1>>

\* linalg.ts 212-214
Dot(v, w) == v[1] * w[1] + v[2] * w[2] + v[3] * w[3]

\* part_003 12-18: the edge at index i joins vertices i and (i + 1) % 3.
\* id is the identity of the object; an edge object is known by its
\* owner and its index.
Simplex(id, vs) ==
    [id |-> id, vertices |-> vs,
     edges |-> [i \in 1..3 |-> [owner |-> id, idx |-> i, ends |-> <<vs[i], vs[(i % 3) + 1]>>]]]

\* The matrix M without row r and column c.
Minor(M, r, c) ==
    [i \in 1..(Len(M) - 1) |->
        [j \in 1..(Len(M) - 1) |->
            M[IF i < r THEN i ELSE i + 1][IF j < c THEN j ELSE j + 1]]]

RECURSIVE Det(_)
RECURSIVE DetRow(_, _)
\* The Laplace expansion along the first row, from column j on.
DetRow(M, j) ==
    IF j > Len(M) THEN 0
    ELSE (IF j % 2 = 1 THEN 1 ELSE -1) * M[1][j] * Det(Minor(M, 1, j)) + DetRow(M, j + 1)

Det(M) == IF Len(M) = 1 THEN M[1][1] ELSE DetRow(M, 1)

Cofactor(M, i, j) == (IF (i + j) % 2 = 0 THEN 1 ELSE -1) * Det(Minor(M, i, j))

\* part_003 26-35 with the metric (v1, v2) => v1.dot(v2) of part_007 396:
\* the bordered matrix of the squares d(v_i, v_j)**2.
CayleyMenger(vs) ==
    [i \in 1..4 |-> [j \in 1..4 |->
        IF i = j THEN 0
        ELSE IF j = 1 THEN 1
        ELSE IF i = 1 THEN 1
        ELSE Dot(vs[i - 1], vs[j - 1]) * Dot(vs[i - 1], vs[j - 1])]]

\* mathjs inv throws for a singular matrix.
InverseThrows(t) == Det(CayleyMenger(t.vertices)) = 0

\* part_003 25-57 and part_007 396-397: point.subtract(circumcircle[0])
\* .norm() <= circumcircle[1].  With Q = M.inverse(), D = det M and
\* C(j) = D * Q(0, j): the barycentric coordinates are C(i) / S with
\* S = C(1) + C(2) + C(3), the radius is sqrt(C(0) / D), which is NaN
\* for C(0) / D < 0, and a comparison with NaN is false.
InCircumcircle(point, t) ==
    LET M == CayleyMenger(t.vertices)
        D == Det(M)
        C(j) == Cofactor(M, j + 1, 1)
        S == C(1) + C(2) + C(3)
        cx == C(1) * t.vertices[1][1] + C(2) * t.vertices[2][1] + C(3) * t.vertices[3][1]
        cy == C(1) * t.vertices[1][2] + C(2) * t.vertices[2][2] + C(3) * t.vertices[3][2]
        N == (point[1] * S - cx) * (point[1] * S - cx) + (point[2] * S - cy) * (point[2] * S - cy)
    IN /\ D # 0
       /\ S # 0
       /\ ~(C(0) > 0 /\ D < 0)
       /\ ~(C(0) < 0 /\ D > 0)
       /\ IF D > 0 THEN N * D <= C(0) * S * S ELSE N * D >= C(0) * S * S

\* part_007 395-399
BadTriangles(triangulation, point) ==
    SelectSeq(triangulation, LAMBDA t : InCircumcircle(point, t))

\* part_007 373-381: edge == badTriangles[i].edges[e] compares references.
isBadEdge(badTriangles, edge) ==
    \E i \in 1..Len(badTriangles) : \E e \in 1..3 :
        /\ edge.owner = badTriangles[i].edges[e].owner
        /\ edge.idx = badTriangles[i].edges[e].idx

\* part_007 402-410, from the bad triangle at index j on.
RECURSIVE Polygon(_, _)
Polygon(badTriangles, j) ==
    IF j > Len(badTriangles) THEN << >>
    ELSE SelectSeq(badTriangles[j].edges, LAMBDA edge : isBadEdge(badTriangles, edge))
         \o Polygon(badTriangles, j + 1)

\* part_007 412-414
RemoveBad(triangulation, badTriangles) ==
    SelectSeq(triangulation,
              LAMBDA t : \A j \in 1..Len(badTriangles) : t.id # badTriangles[j].id)

\* part_007 416-419; newId is the identity of the first new object.
NewTriangles(polygon, point, newId) ==
    [e \in 1..Len(polygon) |->
        Simplex(newId + e - 1, <<polygon[e].ends[1], polygon[e].ends[2], point>>)]

\* part_007 402-420: the insertion step after the bad triangles are found.
InsertionStep(triangulation, badTriangles, point, newId) ==
    LET polygon == Polygon(badTriangles, 1)
    IN [polygon |-> polygon,
        triangulation |-> RemoveBad(triangulation, badTriangles)
                          \o NewTriangles(polygon, point, newId)]

superTriangle == Simplex(0, << V3(0, 3), V3(-2, -1), V3(2, -1) >>)

\* part_007 393-420: the loop over the points, from index i on.  R is
\* [triangulation, newId, threw].
RECURSIVE InsertPoints(_, _, _)
InsertPoints(R, points, i) ==
    IF i > Len(points) \/ R.threw THEN R
    ELSE IF \E j \in 1..Len(R.triangulation) : InverseThrows(R.triangulation[j])
         THEN [R EXCEPT !.threw = TRUE]
         ELSE LET step == InsertionStep(R.triangulation,
                                        BadTriangles(R.triangulation, points[i]),
                                        points[i], R.newId)
              IN InsertPoints([triangulation |-> step.triangulation,
                               newId |-> R.newId + Len(step.polygon),
                               threw |-> FALSE], points, i + 1)

\* A clean-up loop whose includes never finds a super-triangle vertex.
CleanUpNoMatch(triangulation, i) == triangulation

\* part_007 422-430: the clean-up loop from the 0-based index i on; every
\* filter assigns a new array to triangulation, and i goes on from there.
RECURSIVE CleanUp(_, _)
CleanUp(triangulation, i) ==
    IF ~(i < Len(triangulation)) THEN triangulation
    ELSE LET triangle == triangulation[i + 1]
             hit == \E j \in 1..3 : \E k \in 1..3 :
                        triangle.vertices[k] = superTriangle.vertices[j]
         IN CleanUp(IF hit
                    THEN SelectSeq(triangulation, LAMBDA t : t.id # triangle.id)
                    ELSE triangulation,
                    i + 1)

\* part_007 383-433: what tesselate logs.
tesselate(points) ==
    LET R == InsertPoints([triangulation |-> <<superTriangle>>, newId |-> 1,
                           threw |-> FALSE], points, 1)
    IN IF R.threw THEN [threw |-> TRUE, triangulation |-> << >>]
       ELSE [threw |-> FALSE, triangulation |-> CleanUp(R.triangulation, 0)]

\* The input points: inside the unit disk of the Klein model.
TessPoints == { V3(0, 0), V3(1, 0), V3(0, 1), V3(-1, 0), V3(0, -1) }

PointLists == UNION { [1..n -> TessPoints] : n \in 0..MaxPoints }

ModelUnused ==
    /\ bulge = "zero"
    /\ boundary = << >>
    /\ interior = << >>
    /\ chordCache = <<NullEdge, NullEdge>>
    /\ chordRes = NoChord
    /\ sketch = NoSketch

TessInit ==
    /\ ModelUnused
    /\ call = NoCall
    /\ disk = NoDisk
    /\ \E points \in PointLists :
          tess = [mode |-> "tesselate", called |-> FALSE, points |-> points]

Tesselate ==
    /\ tess.mode = "tesselate"
    /\ ~tess.called
    /\ \E r \in { tesselate(tess.points) } :
          tess' = [tess EXCEPT !.called = TRUE] @@ r
    /\ UNCHANGED <<bulge, boundary, interior, chordCache, chordRes, sketch, call, disk>>

TessNext == Tesselate

TessSpec == TessInit /\ [][TessNext]_vars

(***************************************************************************)
(* The insertion step of tesselate on its own: a triangulation, the bad    *)
(* triangles among it and the point to insert.                             *)
(***************************************************************************)
TrianglePool ==
    << Simplex(1, << V3(0, 0), V3(2, 0), V3(0, 2) >>),
       Simplex(2, << V3(0, 0), V3(0, 2), V3(-2, 0) >>),
       Simplex(3, << V3(2, 0), V3(2, 2), V3(0, 2) >>),
       Simplex(4, << V3(0, 0), V3(-2, 0), V3(0, -2) >>) >>

\* The triangulations: up to MaxTriangles triangles of the pool, each
\* once, in any order.
Triangulations ==
    UNION { { [k \in 1..n |-> TrianglePool[f[k]]] :
                f \in { h \in [1..n -> 1..Len(TrianglePool)] :
                          \A a, b \in 1..n : a # b => h[a] # h[b] } } :
            n \in 1..MaxTriangles }

\* The lists of bad triangles of a triangulation: any of its triangles, in
\* the order of the triangulation (part_007 395-399).
BadLists(triangulation) ==
    { SelectSeq(triangulation, LAMBDA t : t.id \in ids) :
        ids \in SUBSET { triangulation[k].id : k \in 1..Len(triangulation) } }

StepInit ==
    /\ ModelUnused
    /\ call = NoCall
    /\ disk = NoDisk
    /\ \E triangulation \in Triangulations :
         \E badTriangles \in BadLists(triangulation) :
           \E point \in { V3(1, 1), V3(0, 1) } :
              tess = [mode |-> "step", called |-> FALSE,
                      before |-> triangulation, badTriangles |-> badTriangles,
                      point |-> point]

Step ==
    /\ tess.mode = "step"
    /\ ~tess.called
    /\ \E r \in { InsertionStep(tess.before, tess.badTriangles, tess.point, 5) } :
          tess' = [tess EXCEPT !.called = TRUE] @@ r
    /\ UNCHANGED <<bulge, boundary, interior, chordCache, chordRes, sketch, call, disk>>

StepNext == Step

StepSpec == StepInit /\ [][StepNext]_vars

(***************************************************************************)
(* Arithmetic of numbers as reduced fractions, with the IEEE results for   *)
(* infinities and NaN: x/0 is an infinity, 0/0, Infinity - Infinity,       *)
(* 0 * Infinity and the square root of a negative number are NaN.          *)
(***************************************************************************)
RECURSIVE Gcd(_, _)
Gcd(a, b) == IF b = 0 THEN a ELSE Gcd(b, a % b)

RNorm(f) ==
    IF f[2] = 0 THEN <<Sign(f[1]), 0>>
    ELSE LET n == IF f[2] < 0 THEN -f[1] ELSE f[1]
             d == Abs(f[2])
             g == Gcd(Abs(n), d)
         IN <<n \div g, d \div g>>

RInt(n) == <<n, 1>>

RIsInf(f) == f[2] = 0 /\ f[1] # 0

RNeg(f) == <<-f[1], f[2]>>

RAdd(a, b) ==
    IF IsNaNFrac(a) \/ IsNaNFrac(b) THEN NaNFrac
    ELSE IF RIsInf(a) THEN (IF RIsInf(b) /\ b[1] # a[1] THEN NaNFrac ELSE a)
    ELSE IF RIsInf(b) THEN b
    ELSE LET g == Gcd(a[2], b[2])
         IN RNorm(<<a[1] * (b[2] \div g) + b[1] * (a[2] \div g), (a[2] \div g) * b[2]>>)

RSub(a, b) == RAdd(a, RNeg(b))

RMul(a, b) ==
    IF IsNaNFrac(a) \/ IsNaNFrac(b) THEN NaNFrac
    ELSE IF RIsInf(a) \/ RIsInf(b)
         THEN <<Sign(a[1]) * Sign(b[1]), 0>>
    ELSE RNorm(<<a[1] * b[1], a[2] * b[2]>>)

RDiv(a, b) ==
    IF IsNaNFrac(a) \/ IsNaNFrac(b) THEN NaNFrac
    ELSE IF RIsInf(b) THEN (IF RIsInf(a) THEN NaNFrac ELSE RInt(0))
    ELSE IF RIsInf(a) THEN <<a[1] * (IF b[1] < 0 THEN -1 ELSE 1), 0>>
    ELSE RNorm(<<a[1] * b[2], a[2] * b[1]>>)

\* The largest s in lo..hi with s * s <= n.
RECURSIVE ISqrt(_, _, _)
ISqrt(n, lo, hi) ==
    IF lo >= hi THEN lo
    ELSE LET mid == (lo + hi + 1) \div 2
         IN IF mid * mid <= n THEN ISqrt(n, mid, hi) ELSE ISqrt(n, lo, mid - 1)

IsSquare(n) == n >= 0 /\ ISqrt(n, 0, Min(n, 40000)) * ISqrt(n, 0, Min(n, 40000)) = n

\* Math.sqrt of a fraction whose root is a fraction.
RSqrt(a) ==
    IF IsNaNFrac(a) \/ a[1] < 0 THEN NaNFrac
    ELSE IF RIsInf(a) THEN a
    ELSE <<ISqrt(a[1], 0, Min(a[1], 40000)), ISqrt(a[2], 0, Min(a[2], 40000))>>

RHasRoot(a) == a[2] # 0 /\ a[1] >= 0 /\ IsSquare(a[1]) /\ IsSquare(a[2])

RECURSIVE RSum(_)
RSum(l) == IF Len(l) = 0 THEN RInt(0) ELSE RAdd(RSum(SubSeq(l, 1, Len(l) - 1)), l[Len(l)])

RECURSIVE RProd(_)
RProd(l) == IF Len(l) = 0 THEN RInt(1) ELSE RMul(RProd(SubSeq(l, 1, Len(l) - 1)), l[Len(l)])

\* == of two numbers: false when one is NaN.
REq(a, b) == FracEq(a, b)

(***************************************************************************)
(* The metrics d of PoincareModel, KleinModel and ConvexProjectiveModel.   *)
(* Points of the disk models are RPoints.  Math.acosh and 0.5 * Math.log   *)
(* are injective, so a distance is kept as the function and its argument;  *)
(* a norm is kept as its square and a cross ratio, a quotient of products  *)
(* of norms, as its square.                                                *)
(***************************************************************************)
DNaN == [fn |-> "NaN", of |-> NaNFrac]

\* Math.acosh(r): NaN for r < 1 and for NaN.
Acosh(r) ==
    IF IsNaNFrac(r) \/ FracLess(r, RInt(1)) THEN DNaN
    ELSE [fn |-> "acosh", of |-> r]

\* 0.5 * Math.log(c) of the cross ratio c, given its square sq.
HalfLog(sq) ==
    IF IsNaNFrac(sq) \/ FracLess(sq, RInt(0)) THEN DNaN
    ELSE [fn |-> "halfLog", of |-> sq]

\* u == v of two distances: false when one is NaN.
DEq(u, v) == u.fn # "NaN" /\ v.fn # "NaN" /\ u.fn = v.fn /\ REq(u.of, v.of)

\* u == 0: acosh(1) and 0.5 * log(1) are 0.
DIsZero(u) == u.fn # "NaN" /\ REq(u.of, RInt(1))

\* Vector.subtract and normSquared of 2-vectors.
Sub2(p, q) == RPoint(RSub(p.x, q.x), RSub(p.y, q.y))

NormSq2(p) == RAdd(RMul(p.x, p.x), RMul(p.y, p.y))

\* model.ts 220-226
PoincareModel_d(p, q) ==
    Acosh(RAdd(RInt(1),
               RDiv(RMul(RInt(2), NormSq2(Sub2(p, q))),
                    RMul(RSub(RInt(1), NormSq2(p)), RSub(RInt(1), NormSq2(q))))))

\* model.ts 293-301: the argument of the four Math.sqrt calls.
KleinDiscriminant(x1, y1, x2, y2) ==
    RNeg(RMul(RMul(RSub(x1, x2), RSub(x1, x2)),
              RSum(<< RMul(RMul(x2, x2), RAdd(RInt(-1), RMul(y1, y1))),
                      RNeg(RMul(RSub(y1, y2), RSub(y1, y2))),
                      RNeg(RProd(<< RInt(2), x1, x2, RAdd(RInt(-1), RMul(y1, y2)) >>)),
                      RMul(RMul(x1, x1), RAdd(RInt(-1), RMul(y2, y2))) >>)))

\* model.ts 284-313
KleinModel_chord(p, q) ==
    LET x1 == p.x
        y1 == p.y
        x2 == q.x
        y2 == q.y
        root == RSqrt(KleinDiscriminant(x1, y1, x2, y2))
        numera1 == RNeg(RSum(<< RNeg(RProd(<<x2, y1, y1>>)), RProd(<<x1, y1, y2>>),
                                RProd(<<x2, y1, y2>>), RNeg(RProd(<<x1, y2, y2>>)), root >>))
        denoma1 == RSum(<< RMul(x1, x1), RNeg(RProd(<<RInt(2), x1, x2>>)), RMul(x2, x2),
                           RMul(RSub(y1, y2), RSub(y1, y2)) >>)
        numera2 == RSum(<< RNeg(RProd(<<x2, x2, x2, y1>>)), RProd(<<x1, x1, x1, y2>>),
                           RProd(<<x1, x2, x2, RAdd(RMul(RInt(2), y1), y2)>>),
                           RNeg(RProd(<<x1, x1, x2, RAdd(y1, RMul(RInt(2), y2))>>)),
                           RMul(RAdd(RNeg(y1), y2), root) >>)
        denoma2 == RMul(RSub(x1, x2),
                        RSum(<< RMul(x1, x1), RNeg(RProd(<<RInt(2), x1, x2>>)), RMul(x2, x2),
                                RMul(RSub(y1, y2), RSub(y1, y2)) >>))
        numb1 == RSum(<< RProd(<<x2, y1, y1>>), RNeg(RProd(<<x1, y1, y2>>)),
                         RNeg(RProd(<<x2, y1, y2>>)), RProd(<<x1, y2, y2>>), root >>)
        denomb1 == denoma1
        numb2 == RSum(<< RNeg(RProd(<<x2, x2, x2, y1>>)), RProd(<<x1, x1, x1, y2>>),
                         RProd(<<x1, x2, x2, RAdd(RMul(RInt(2), y1), y2)>>),
                         RNeg(RProd(<<x1, x1, x2, RAdd(y1, RMul(RInt(2), y2))>>)),
                         RMul(RSub(y1, y2), root) >>)
        denomb2 == denoma2
        zero == RInt(0)
    IN IF \/ (REq(numera1, zero) /\ REq(denoma1, zero))
          \/ (REq(numera2, zero) /\ REq(denoma2, zero))
          \/ (REq(numb1, zero) /\ REq(denomb1, zero))
          \/ (REq(numb2, zero) /\ REq(denomb2, zero))
       THEN [v1 |-> RPoint(RInt(0), RInt(-1)), v2 |-> RPoint(RInt(0), RInt(1))]
       ELSE [v1 |-> RPoint(RDiv(numera1, denoma1), RDiv(numera2, denoma2)),
             v2 |-> RPoint(RDiv(numb1, denomb1), RDiv(numb2, denomb2))]

\* model.ts 323-329 and 748-754: the ordering of the chord's ends and the
\* quotient of the products of norms, as its square.
OrderedCrossRatio(a0, b0, p, q) ==
    LET swap == FracLess(NormSq2(Sub2(a0, q)), NormSq2(Sub2(a0, p)))
        a == IF swap THEN b0 ELSE a0
        b == IF swap THEN a0 ELSE b0
    IN [a |-> a, b |-> b,
        sq |-> RDiv(RMul(NormSq2(Sub2(q, a)), NormSq2(Sub2(b, p))),
                    RMul(NormSq2(Sub2(p, a)), NormSq2(Sub2(b, q))))]

\* model.ts 315-330
KleinModel_crossRatio(p, q) ==
    LET e == KleinModel_chord(p, q)
    IN OrderedCrossRatio(e.v1, e.v2, p, q)

\* model.ts 332-339
KleinModel_d(p, q) == HalfLog(KleinModel_crossRatio(p, q).sq)

\* model.ts 742-755: b is the boundary, cache the chord cache; returns the
\* cross ratio with the chord cache that the call of chord leaves.
crossRatio(b, cache, x, y) ==
    LET c == chord(b, cache, x, y)
        a0 == RPoint(RNorm(c.a.x), RNorm(c.a.y))
        b0 == RPoint(RNorm(c.b.x), RNorm(c.b.y))
    IN OrderedCrossRatio(a0, b0, VecPoint(x), VecPoint(y)) @@ [cache |-> c.cache]

\* model.ts 760-762
d(b, cache, p, q) ==
    LET c == crossRatio(b, cache, p, q)
    IN [value |-> HalfLog(c.sq), cache |-> c.cache]

(***************************************************************************)
(* Calls of d on the three models: the ConvexProjectiveModel is the one    *)
(* of the state machine above, the disk models have no state that d reads. *)
(***************************************************************************)
DiskPoint(a, b, k) == RPoint(RNorm(<<a, k>>), RNorm(<<b, k>>))

\* Points of the open unit disk.
DiskPoints ==
    { DiskPoint(0, 0, 10), DiskPoint(3, 4, 10), DiskPoint(6, 4, 10), DiskPoint(6, -4, 10) }

\* The pairs for which the square root in KleinModel.chord is a fraction.
KleinPairs ==
    { pq \in DiskPoints \X DiskPoints :
        RHasRoot(KleinDiscriminant(pq[1].x, pq[1].y, pq[2].x, pq[2].y)) }

\* Points inside the reference triangle p1, p2, p3.
HilbertPoints == { Vec(0, 0), Vec(-1, 2), Vec(2, 0) }

PoincareD(p, q) ==
    /\ call' = [op |-> "d", model |-> "Poincare", p |-> p, q |-> q,
                value |-> PoincareModel_d(p, q)]
    /\ UNCHANGED <<bulge, boundary, interior, chordCache, chordRes, sketch, tess, disk>>

KleinD(p, q) ==
    /\ call' = [op |-> "d", model |-> "Klein", p |-> p, q |-> q,
                value |-> KleinModel_d(p, q),
                cr |-> KleinModel_crossRatio(p, q).sq]
    /\ UNCHANGED <<bulge, boundary, interior, chordCache, chordRes, sketch, tess, disk>>

HilbertD(p, q) ==
    \E r \in { crossRatio(boundary, chordCache, p, q) } :
       /\ Len(r.cache) <= MaxCache
       /\ chordCache' = r.cache
       /\ call' = [op |-> "d", model |-> "ConvexProjective", p |-> p, q |-> q,
                   value |-> d(boundary, chordCache, p, q).value,
                   cr |-> r.sq]
       /\ UNCHANGED <<bulge, boundary, interior, chordRes, sketch, tess, disk>>

MetricInit == Init

MetricNext ==
    \/ \E p, q \in DiskPoints : PoincareD(p, q)
    \/ \E pq \in KleinPairs : KleinD(pq[1], pq[2])
    \/ \E p, q \in HilbertPoints : HilbertD(p, q)
    \/ ClearChordCache

MetricSpec == MetricInit /\ [][MetricNext]_vars

(***************************************************************************)
(* linalg: Matrix and Vector over fractions.  A Matrix is its mat array,   *)
(* the sequence of its rows; a Vector is a Matrix of one column.  A call   *)
(* either returns a value or throws.                                       *)
(***************************************************************************)
Rows(m) == Len(m)

Columns(m) == IF Len(m) = 0 THEN 0 ELSE Len(m[1])

Thrown == [throws |-> TRUE]

Returned(v) == [throws |-> FALSE, value |-> v]

\* EPSILON as a number: the grid step is 1 / GridPerUnit.
GridPerUnit == 10000

EpsilonR == <<EPSILON, GridPerUnit>>

Vector_fromList(l) == [i \in 1..Len(l) |-> <<l[i]>>]

Matrix_identity(n) == [i \in 1..n |-> [j \in 1..n |-> IF i = j THEN RInt(1) ELSE RInt(0)]]

Matrix_transpose(this) ==
    [j \in 1..Columns(this) |-> [i \in 1..Rows(this) |-> this[i][j]]]

Matrix_add(this, other) ==
    IF Rows(this) # Rows(other) \/ Columns(this) # Columns(other)
    THEN Thrown
    ELSE Returned([i \in 1..Rows(this) |->
                     [j \in 1..Columns(this) |-> RAdd(this[i][j], other[i][j])]])

Matrix_multiply(this, other) ==
    IF Columns(this) # Rows(other)
    THEN Thrown
    ELSE Returned([i \in 1..Rows(this) |->
                     [j \in 1..Columns(other) |->
                        RSum([k \in 1..Rows(other) |-> RMul(this[i][k], other[k][j])])]])

Matrix_scale(this, c) ==
    [i \in 1..Rows(this) |-> [j \in 1..Columns(this) |-> RMul(this[i][j], c)]]

Matrix_negate(this) == Matrix_scale(this, RInt(-1))

Vector_scale(this, c) == Matrix_scale(this, c)

Vector_negate(this) == Matrix_negate(this)

Vector_add(this, other) == Matrix_add(this, other)

\* No test of the dimensions: reading other.mat[i][0] past the end of a
\* shorter other is a TypeError, the entries of a longer other are ignored.
Vector_subtract(this, other) ==
    IF Rows(other) < Rows(this)
    THEN Thrown
    ELSE Returned([i \in 1..Rows(this) |-> <<RSub(this[i][1], other[i][1])>>])

Vector_cross(this, other) ==
    IF Rows(this) # 3 \/ Rows(other) # 3
    THEN Thrown
    ELSE Returned(Vector_fromList(<<
            RSub(RMul(this[2][1], other[3][1]), RMul(this[3][1], other[2][1])),
            RSub(RMul(this[3][1], other[1][1]), RMul(this[1][1], other[3][1])),
            RSub(RMul(this[1][1], other[2][1]), RMul(this[2][1], other[1][1])) >>))

Vector_dot(this, other) ==
    LET r == Matrix_multiply(Matrix_transpose(this), other)
    IN IF r.throws THEN Thrown ELSE Returned(r.value[1][1])

Vector_normSquared(this) == Vector_dot(this, this).value

Vector_norm(this) == RSqrt(Vector_normSquared(this))

Vector_normalize(this) == Vector_scale(this, RDiv(RInt(1), Vector_norm(this)))

\* homogenize(idx), idx counted from 0: the value returned and the
\* receiver's mat array after the call.
Vector_homogenize(this, idx) ==
    LET z == this[idx + 1][1]
    IN IF FracLeq(EpsilonR, z)
       THEN [value |-> Vector_fromList([i \in 1..Len(this) |-> RDiv(this[i][1], z)]),
             this |-> this]
       ELSE LET zeroed == [this EXCEPT ![Rows(this)] = <<RInt(0)>>]
            IN [value |-> Vector_normalize(zeroed), this |-> zeroed]

\* LinearTransformation.T and compose
LinearTransformation_T(mat, v) == Matrix_multiply(mat, v)

LinearTransformation_compose(mat, other) == Matrix_multiply(mat, other)

(***************************************************************************)
(* DiskModel: the frame stack and the maps between canvas and model.  A    *)
(* DiskModel D is the record of its fields; model points are Vectors,      *)
(* canvas points CanvasPoints with fraction coordinates.                   *)
(***************************************************************************)
MaxFrames == 2

DiskModel(o, r) ==
    [inUse |-> TRUE, drawOrigin |-> o, drawRadius |-> r,
     frameStack |-> << Matrix_identity(3) >>, cols |-> << >>]

\* Stack.peek: undefined on an empty stack.
HasFrame(D) == Len(D.frameStack) > 0

DiskModel_T(D) == D.frameStack[Len(D.frameStack)]

\* act: throws on an empty stack (T() is undefined).
DiskModel_act(D, p) ==
    IF ~HasFrame(D) THEN Thrown
    ELSE Returned(Vector_homogenize(LinearTransformation_T(DiskModel_T(D), p).value, 2).value)

DiskModel_canvasToModel(D, a) ==
    DiskModel_act(D, Vector_fromList(<<
        RMul(RDiv(RSub(a.x, D.drawOrigin.x), D.drawRadius), RInt(2)),
        RMul(RDiv(RNeg(RSub(a.y, D.drawOrigin.y)), D.drawRadius), RInt(2)),
        RInt(1) >>))

DiskModel_modelToCanvas(D, p) ==
    CanvasPoint(RAdd(RDiv(RMul(p[1][1], D.drawRadius), RInt(2)), D.drawOrigin.x),
                RAdd(RDiv(RMul(RNeg(p[2][1]), D.drawRadius), RInt(2)), D.drawOrigin.y))

\* push, pop and transfrom: whether the call throws and the frame stack
\* after it.
DiskModel_push(D) ==
    IF ~HasFrame(D) THEN [throws |-> TRUE, frameStack |-> D.frameStack]
    ELSE [throws |-> FALSE, frameStack |-> Append(D.frameStack, DiskModel_T(D))]

DiskModel_pop(D) ==
    [throws |-> FALSE,
     frameStack |-> SubSeq(D.frameStack, 1, Len(D.frameStack) - 1)]

\* The argument of push is evaluated first: frameStack.pop() has removed the
\* top frame when compose raises, and then nothing is pushed.
DiskModel_transfrom(D, T) ==
    IF ~HasFrame(D) THEN [throws |-> TRUE, frameStack |-> D.frameStack]
    ELSE IF LinearTransformation_compose(T, DiskModel_T(D)).throws
    THEN [throws |-> TRUE, frameStack |-> DiskModel_pop(D).frameStack]
    ELSE [throws |-> FALSE,
          frameStack |-> Append(DiskModel_pop(D).frameStack,
                                LinearTransformation_compose(T, DiskModel_T(D)).value)]

\* ConvexProjectiveModel.modelToCanvas and canvasToModel on fractions, with
\* drawOrigin o and drawScale sc.
ConvexProjectiveModel_modelToCanvas(o, sc, p) ==
    CanvasPoint(RAdd(RMul(sc, p[1][1]), o.x),
                RAdd(RMul(RNeg(sc), p[2][1]), o.y))

ConvexProjectiveModel_canvasToModel(o, sc, a) ==
    Vector_fromList(<< RDiv(RSub(a.x, o.x), sc), RDiv(RNeg(RSub(a.y, o.y)), sc), RInt(1) >>)

VectorEq(u, v) ==
    /\ Rows(u) = Rows(v)
    /\ \A i \in 1..Rows(u) : REq(u[i][1], v[i][1])

CanvasEq(a, b) == REq(a.x, b.x) /\ REq(a.y, b.y)

(***************************************************************************)
(* The frame stack as a state machine: a DiskModel (PoincareModel and      *)
(* KleinModel inherit these methods unchanged) and a ConvexProjectiveModel *)
(* take push, pop and transfrom calls, and points are mapped to the canvas *)
(* and back, and to the model and back.                                    *)
(***************************************************************************)
RMat(m) == [i \in 1..Len(m) |-> [j \in 1..Len(m[i]) |-> RInt(m[i][j])]]

\* The transformations passed to transfrom: a reflection and a rotation of
\* the plane in homogeneous coordinates, and a rotation given as a 2 x 2
\* linear map.
Frames ==
    { RMat(<< <<-1, 0, 0>>, <<0, 1, 0>>, <<0, 0, 1>> >>),
      RMat(<< <<0, -1, 0>>, <<1, 0, 0>>, <<0, 0, 1>> >>),
      RMat(<< <<0, -1>>, <<1, 0>> >>) }

FrameOrigin == CanvasPoint(RInt(400), RInt(400))

FrameRadius == RInt(400)

FrameScale == RInt(100)

FrameModelPoints ==
    { Vector_fromList(<<RInt(0), RInt(0), RInt(1)>>),
      Vector_fromList(<<<<1, 2>>, RInt(0), RInt(1)>>),
      Vector_fromList(<<<<3, 10>>, <<2, 5>>, RInt(1)>>) }

FrameCanvasPoints ==
    { CanvasPoint(RInt(400), RInt(400)), CanvasPoint(RInt(450), RInt(380)) }

ModelVariants == { "Disk", "ConvexProjective" }

FrameInit ==
    /\ Init
    /\ bulge = "regular"

FrameCall(variant, r) ==
    /\ disk' = IF variant = "Disk" THEN [disk EXCEPT !.frameStack = r.frameStack] ELSE disk
    /\ UNCHANGED <<bulge, boundary, interior, chordCache, chordRes, sketch, tess>>

NewDiskModel ==
    /\ ~disk.inUse
    /\ disk' = DiskModel(FrameOrigin, FrameRadius)
    /\ UNCHANGED <<bulge, boundary, interior, chordCache, chordRes, sketch, tess, call>>

\* History of the calls: the stack as it was before the last push of a
\* DiskModel, kept while only transfrom calls follow that push.
NoMark == [set |-> FALSE]

MarkOfPush ==
    IF call.op \in {"push", "transfrom"} /\ call.model = "Disk" THEN call.mark ELSE NoMark

Push(variant) ==
    /\ disk.inUse
    /\ Len(disk.frameStack) < MaxFrames
    /\ LET r == IF variant = "Disk" THEN DiskModel_push(disk)
                ELSE [throws |-> FALSE, frameStack |-> << >>]
       IN /\ call' = [op |-> "push", model |-> variant, throws |-> r.throws,
                      before |-> disk.frameStack,
                      mark |-> IF variant = "Disk" /\ ~r.throws
                               THEN [set |-> TRUE, stack |-> disk.frameStack]
                               ELSE NoMark]
          /\ FrameCall(variant, r)

Pop(variant) ==
    /\ disk.inUse
    /\ LET r == IF variant = "Disk" THEN DiskModel_pop(disk)
                ELSE [throws |-> FALSE, frameStack |-> << >>]
       IN /\ call' = [op |-> "pop", model |-> variant, throws |-> r.throws,
                      before |-> disk.frameStack,
                      mark |-> IF variant = "Disk" THEN MarkOfPush ELSE NoMark]
          /\ FrameCall(variant, r)

Transfrom(variant, T) ==
    /\ disk.inUse
    /\ LET r == IF variant = "Disk" THEN DiskModel_transfrom(disk, T)
                ELSE [throws |-> FALSE, frameStack |-> << >>]
       IN /\ call' = [op |-> "transfrom", model |-> variant, throws |-> r.throws, T |-> T,
                      before |-> disk.frameStack,
                      mark |-> IF variant = "Disk" THEN MarkOfPush ELSE NoMark]
          /\ FrameCall(variant, r)

\* canvasToModel(modelToCanvas(p))
ModelRoundTrip(variant, p) ==
    /\ disk.inUse
    /\ LET r == IF variant = "Disk"
                THEN DiskModel_canvasToModel(disk, DiskModel_modelToCanvas(disk, p))
                ELSE Returned(ConvexProjectiveModel_canvasToModel(FrameOrigin, FrameScale,
                         ConvexProjectiveModel_modelToCanvas(FrameOrigin, FrameScale, p)))
       IN call' = [op |-> "canvasToModel(modelToCanvas)", model |-> variant, p |-> p,
                   frames |-> Len(disk.frameStack), result |-> r]
    /\ UNCHANGED <<bulge, boundary, interior, chordCache, chordRes, sketch, tess, disk>>

\* modelToCanvas(canvasToModel(a))
CanvasRoundTrip(variant, a) ==
    /\ disk.inUse
    /\ LET m == IF variant = "Disk"
                THEN DiskModel_canvasToModel(disk, a)
                ELSE Returned(ConvexProjectiveModel_canvasToModel(FrameOrigin, FrameScale, a))
           r == IF m.throws THEN Thrown
                ELSE IF variant = "Disk"
                THEN Returned(DiskModel_modelToCanvas(disk, m.value))
                ELSE Returned(ConvexProjectiveModel_modelToCanvas(FrameOrigin, FrameScale, m.value))
       IN call' = [op |-> "modelToCanvas(canvasToModel)", model |-> variant, p |-> a,
                   frames |-> Len(disk.frameStack), result |-> r]
    /\ UNCHANGED <<bulge, boundary, interior, chordCache, chordRes, sketch, tess, disk>>

FrameNext ==
    \/ NewDiskModel
    \/ \E variant \in ModelVariants : Push(variant)
    \/ \E variant \in ModelVariants : Pop(variant)
    \/ \E variant \in ModelVariants, T \in Frames : Transfrom(variant, T)
    \/ \E variant \in ModelVariants, p \in FrameModelPoints : ModelRoundTrip(variant, p)
    \/ \E variant \in ModelVariants, a \in FrameCanvasPoints : CanvasRoundTrip(variant, a)

FrameSpec == FrameInit /\ [][FrameNext]_vars

(***************************************************************************)
(* The box walk of the Hilbert bisector: drawBisectorContinue and          *)
(* drawBisector.  The walk reads the metric only through the differences   *)
(* |d(p, r) - d(r, q)| at the canvas points r it scans; these differences  *)
(* are an input of the walk, a DiffField: the difference grows with the    *)
(* distance of r from the horizontal line y = y0 and, left of x0, with     *)
(* the distance from x = x0 (the band of small differences ends at x0).    *)
(* Canvas points have fraction coordinates.                                *)
(***************************************************************************)
BoxRadius == 2

RAbs(a) == IF a[1] < 0 THEN RNeg(a) ELSE a

\* Math.sign: NaN for NaN.
MathSign(a) == IF IsNaNFrac(a) THEN NaNFrac ELSE RInt(Sign(a[1]))

\* geometry.ts 44-46: the third coordinate of the difference is 1.
Point_subtract(a, b) == Vector_fromList(<< RSub(a.x, b.x), RSub(a.y, b.y), RInt(1) >>)

DiffField(x0, y0, slope) == [x0 |-> x0, y0 |-> y0, slope |-> slope]

\* Math.abs(this.d(p, rModel) - this.d(rModel, q)) at the canvas point r
DiffAt(F, r) ==
    LET left == RSub(F.x0, r.x)
    IN RMul(F.slope, RAdd(RAbs(RSub(r.y, F.y0)),
                          IF FracLess(RInt(0), left) THEN left ELSE RInt(0)))

\* The box of one step in the order of the two loops: i from x - 10 while
\* i < x + 10, j from y - 10 while j < y + 10, both in steps of 0.5, with
\* BoxRadius in place of 10.
BoxSide == 4 * BoxRadius

BoxPoint(nextPoint, n) ==
    CanvasPoint(RAdd(nextPoint.x, RNorm(<<((n - 1) \div BoxSide) - 2 * BoxRadius, 2>>)),
                RAdd(nextPoint.y, RNorm(<<((n - 1) % BoxSide) - 2 * BoxRadius, 2>>)))

\* model.ts 845-866: the two loops over the box.  The points whose
\* difference is below epsilon are pushed in the order of the loops; the
\* test signedNorm > nextNextNorm, with nextNextNorm starting at 0, leaves
\* the first of the pushed points with the greatest positive signedNorm.
SignedNorm(coorient, nextPoint, rCanvas) ==
    LET nr == Point_subtract(rCanvas, nextPoint)
    IN RMul(MathSign(Vector_dot(coorient, nr).value), Vector_normSquared(nr))

ScanBoxNoPush(F, coorient, nextPoint, epsilon, bisectingPoints) ==
    [nextNextPoint |-> nextPoint, bisectingPoints |-> bisectingPoints]

ScanBox(F, coorient, nextPoint, epsilon, bisectingPoints) ==
    CHOOSE res \in
        { LET pushed == pn[1]
              norms == pn[2]
              positive == { n \in 1..Len(pushed) : FracLess(RInt(0), norms[n]) }
              greatest == { n \in positive : \A m \in positive : FracLeq(norms[m], norms[n]) }
          IN [nextNextPoint |-> IF positive = {} THEN nextPoint
                                ELSE pushed[CHOOSE n \in greatest : \A m \in greatest : n <= m],
              bisectingPoints |-> bisectingPoints \o pushed] :
          pn \in { <<pushed, [n \in 1..Len(pushed) |-> SignedNorm(coorient, nextPoint, pushed[n])]>> :
                     pushed \in { SelectSeq([n \in 1..(BoxSide * BoxSide) |-> BoxPoint(nextPoint, n)],
                                            LAMBDA r : FracLess(DiffAt(F, r), epsilon)) } } } : TRUE

\* model.ts 837-877: the steps from the i-th on.  W is the walk so far: its
\* current point, its tolerance, the shared array bisectingPoints, and the
\* steps made (from, to, the tolerance used, the length of bisectingPoints
\* when the tolerance is shrunk).
RECURSIVE WalkSteps(_, _, _, _, _)
WalkSteps(F, drawScale, coorient, W, i) ==
    IF ~(2 * i < drawScale) THEN W
    ELSE CHOOSE res \in
            { WalkSteps(F, drawScale, coorient, next, i + 1) :
                next \in { [nextPoint |-> acc.nextNextPoint,
                            epsilon |-> RSub(W.epsilon,
                                             RDiv(W.epsilon, RInt(Len(acc.bisectingPoints)))),
                            bisectingPoints |-> acc.bisectingPoints,
                            steps |-> Append(W.steps, [from |-> W.nextPoint,
                                                       to |-> acc.nextNextPoint,
                                                       epsilon |-> W.epsilon,
                                                       found |-> Len(acc.bisectingPoints)])] :
                           acc \in { ScanBox(F, coorient, W.nextPoint, W.epsilon,
                                             W.bisectingPoints) } } } : TRUE

NullPoint == [x |-> NaNFrac, y |-> NaNFrac, null |-> TRUE]

IsNullPoint(a) == "null" \in DOMAIN a

\* model.ts 835-878: reading nextPoint.x of a null nextPoint is a TypeError.
drawBisectorContinue(F, drawScale, nextPoint, coorient, bisectingPoints, epsilon) ==
    IF IsNullPoint(nextPoint) THEN Thrown
    ELSE CHOOSE res \in
            { Returned(WalkSteps(F, drawScale, coorient, W, 0)) :
                W \in { [nextPoint |-> nextPoint, epsilon |-> epsilon,
                         bisectingPoints |-> bisectingPoints, steps |-> << >>] } } : TRUE

\* Vector.normalizeXY: x and y divided by the norm of (x, y), z kept.
Vector_normalizeXY(v) ==
    LET n == RSqrt(RAdd(RMul(v[1][1], v[1][1]), RMul(v[2][1], v[2][1])))
    IN Vector_fromList(<< RDiv(v[1][1], n), RDiv(v[2][1], n), v[3][1] >>)

RMax(a, b) == IF FracLess(a, b) THEN b ELSE a

RMin(a, b) == IF FracLess(b, a) THEN b ELSE a

\* model.ts 902-914: the first point of the scan, in the order of the two
\* loops, whose difference is below epsilon; null when there is none.  The
\* coordinates of the corners are integers.
SeedScan(F, xMin, xMax, yMin, yMax, epsilon) ==
    LET hits == { c \in (xMin[1]..(xMax[1] - 1)) \X (yMin[1]..(yMax[1] - 1)) :
                    FracLess(DiffAt(F, CanvasPoint(RInt(c[1]), RInt(c[2]))), epsilon) }
    IN IF hits = {} THEN NullPoint
       ELSE LET c == CHOOSE h \in hits :
                        \A g \in hits : h[1] < g[1] \/ (h[1] = g[1] /\ h[2] <= g[2])
            IN CanvasPoint(RInt(c[1]), RInt(c[2]))

\* model.ts 884-923, on a model with drawOrigin o and drawScale sc: what the
\* two walks did.
ConvexProjectiveModel_drawBisector(F, o, sc, p, q, epsilon) ==
    LET pCanvas == ConvexProjectiveModel_modelToCanvas(o, RInt(sc), p)
        qCanvas == ConvexProjectiveModel_modelToCanvas(o, RInt(sc), q)
        pq == Vector_subtract(q, p).value
    IN CHOOSE res \in
        { IF first.throws THEN Thrown
          ELSE Returned([midpoint |-> first.midpoint, coorient |-> first.coorient,
                         first |-> first.value,
                         second |-> drawBisectorContinue(F, sc, first.midpoint,
                                        Vector_negate(first.coorient),
                                        first.value.bisectingPoints, epsilon).value]) :
          first \in
            { drawBisectorContinue(F, sc, mc[1], mc[2],
                                   IF IsNullPoint(mc[1]) THEN << >> ELSE << mc[1] >>, epsilon)
                @@ [midpoint |-> mc[1], coorient |-> mc[2]] :
              mc \in { << SeedScan(F, RSub(RMin(pCanvas.x, qCanvas.x), RInt(1)),
                                      RAdd(RMax(pCanvas.x, qCanvas.x), RInt(1)),
                                      RSub(RMin(pCanvas.y, qCanvas.y), RInt(1)),
                                      RAdd(RMax(pCanvas.y, qCanvas.y), RInt(1)), epsilon),
                          Vector_normalizeXY(Vector_fromList(<< RNeg(pq[2][1]), pq[1][1],
                                                                RInt(1) >>)) >> } } } : TRUE

(***************************************************************************)
(* The walks as a state machine: a walk is started at a point, or          *)
(* drawBisector is called on two points.                                   *)
(***************************************************************************)
WalkScale == 4

WalkFields ==
    { DiffField(RInt(x0), RInt(400), RInt(1)) : x0 \in {390, 399, 400} }
    \cup { DiffField(RInt(400), RInt(401), <<1, 2>>), DiffField(RInt(400), RInt(500), RInt(1)) }

WalkStarts ==
    { CanvasPoint(RInt(400), RInt(400)), CanvasPoint(RInt(401), RInt(400)),
      CanvasPoint(<<801, 2>>, RInt(400)), NullPoint }

\* (-pq.y, pq.x, 1) of drawBisector has the third coordinate 1.
Coorients ==
    { Vector_fromList(<<RInt(c[1]), RInt(c[2]), RInt(z)>>) :
        c \in { <<-1, 0>>, <<1, 0>>, <<0, 1>> }, z \in { -1, 0, 1 } }
    \cup { Vector_fromList(<< <<-3, 5>>, <<4, 5>>, RInt(1) >>) }

Epsilons == { <<1, 4>>, <<3, 4>> }

\* The pairs p, q of drawBisector.
BisectorPairs ==
    { << Vector_fromList(<<RInt(0), <<-1, 2>>, RInt(1)>>), Vector_fromList(<<RInt(0), <<1, 2>>, RInt(1)>>) >>,
      << Vector_fromList(<<RInt(0), <<1, 2>>, RInt(1)>>), Vector_fromList(<<RInt(0), <<-1, 2>>, RInt(1)>>) >>,
      << Vector_fromList(<<RInt(0), RInt(0), RInt(1)>>), Vector_fromList(<<RInt(0), <<1, 2>>, RInt(1)>>) >>,
      << Vector_fromList(<<RInt(0), RInt(0), RInt(1)>>), Vector_fromList(<<RInt(0), RInt(0), RInt(1)>>) >> }

WalkInit ==
    /\ Init
    /\ bulge = "regular"

DrawBisectorContinue(F, nextPoint, coorient, epsilon) ==
    /\ call = NoCall
    /\ call' = [op |-> "drawBisectorContinue", F |-> F, nextPoint |-> nextPoint,
                coorient |-> coorient, epsilon |-> epsilon,
                result |-> drawBisectorContinue(F, WalkScale, nextPoint, coorient,
                              IF IsNullPoint(nextPoint) THEN << >> ELSE << nextPoint >>, epsilon)]
    /\ UNCHANGED <<bulge, boundary, interior, chordCache, chordRes, sketch, tess, disk>>

DrawBisector(F, p, q, epsilon) ==
    /\ call = NoCall
    /\ call' = [op |-> "drawBisector", F |-> F, p |-> p, q |-> q, epsilon |-> epsilon,
                result |-> ConvexProjectiveModel_drawBisector(F, FrameOrigin, WalkScale, p, q, epsilon)]
    /\ UNCHANGED <<bulge, boundary, interior, chordCache, chordRes, sketch, tess, disk>>

WalkNext ==
    \/ \E F \in WalkFields, nextPoint \in WalkStarts, coorient \in Coorients, epsilon \in Epsilons :
          DrawBisectorContinue(F, nextPoint, coorient, epsilon)
    \/ \E F \in WalkFields, pq \in BisectorPairs, epsilon \in Epsilons :
          DrawBisector(F, pq[1], pq[2], epsilon)

WalkSpec == WalkInit /\ [][WalkNext]_vars

(***************************************************************************)
(* bulgeSubgroup: the products pushed by the loop, before the filter.  A   *)
(* product of generators is kept as its word, the sequence of the indices  *)
(* of its factors: g starts as r1, r2, r3 and step i pushes g[i] * r1,     *)
(* g[i] * r2 and g[i] * r3, so the entry at position k > 3 (from 1) is the *)
(* entry at position ((k - 4) \div 3) + 1 times r_(((k - 4) % 3) + 1).     *)
(***************************************************************************)
STEPS == 900

MaxSteps == 100

RECURSIVE Word(_)
Word(k) ==
    IF k <= 3 THEN << k >>
    ELSE Append(Word(((k - 4) \div 3) + 1), ((k - 4) % 3) + 1)

\* model.ts 534-540 with steps in place of STEPS
ProductWords(steps) == [k \in 1..(3 + 3 * steps) |-> Word(k)]

StepCounts == 0..MaxSteps \cup { STEPS }

SubgroupInit ==
    /\ Init
    /\ bulge = "regular"

BulgeSubgroup(steps) ==
    /\ call = NoCall
    /\ call' = [op |-> "bulgeSubgroup", steps |-> steps, g |-> ProductWords(steps)]
    /\ UNCHANGED <<bulge, boundary, interior, chordCache, chordRes, sketch, tess, disk>>

SubgroupNext == \E steps \in StepCounts : BulgeSubgroup(steps)

SubgroupSpec == SubgroupInit /\ [][SubgroupNext]_vars

(***************************************************************************)
(* DiskModel.tesselate: the colour of every pixel it paints.  The metric   *)
(* d is that of the subclass, PoincareModel or KleinModel.  A colour is a  *)
(* triple; randInt draws the components of a new colour.                   *)
(***************************************************************************)
MaxCalls == 2

Black == <<0, 0, 0>>

\* The colours randInt can draw (each component is in 0..254).
Palette == { Black, <<200, 100, 50>> }

\* Number.POSITIVE_INFINITY as a distance.
DInfinity == [fn |-> "Infinity", of |-> PosInf]

\* distance < minDistance: false when one of them is NaN.  Math.acosh and
\* 0.5 * Math.log are increasing, and one model uses one of them.
DLess(u, v) == u.fn # "NaN" /\ v.fn # "NaN" /\ FracLess(u.of, v.of)

DiskModel_d(variant, p, q) ==
    IF variant = "Poincare"
    THEN PoincareModel_d(RPoint(p[1][1], p[2][1]), RPoint(q[1][1], q[2][1]))
    ELSE KleinModel_d(RPoint(p[1][1], p[2][1]), RPoint(q[1][1], q[2][1]))

\* model.ts 168-177: the loop over the sites from the i-th on; acc is
\* minDistance and col.
RECURSIVE NearestColour(_, _, _, _, _, _)
NearestColour(variant, cols, points, p, acc, i) ==
    IF i > Len(points) THEN acc
    ELSE LET distance == DiskModel_d(variant, p, points[i])
         IN NearestColour(variant, cols, points, p,
                IF DLess(distance, acc.minDistance)
                THEN [minDistance |-> distance, col |-> cols[i]]
                ELSE acc,
                i + 1)

\* model.ts 159-182: the pixels of the two loops that are not skipped, each
\* with its colour.  The coordinates of drawOrigin and drawRadius are
\* integers.
TessPixels(D) ==
    { CanvasPoint(RInt(x), RInt(y)) :
        x \in (D.drawOrigin.x[1] - D.drawRadius[1])..(D.drawOrigin.x[1] + D.drawRadius[1]),
        y \in (D.drawOrigin.y[1] - D.drawRadius[1])..(D.drawOrigin.y[1] + D.drawRadius[1]) }

IsPainted(D, a) ==
    ~FracLess(RInt(1), RSub(Vector_normSquared(DiskModel_canvasToModel(D, a).value), RInt(1)))

DiskModel_tesselate(D, cols, points) ==
    [a \in { b \in TessPixels(D) : IsPainted(D, b) } |->
        NearestColour(D.model, cols, points, DiskModel_canvasToModel(D, a).value,
                      [minDistance |-> DInfinity, col |-> Black], 1).col]

(***************************************************************************)
(* tesselate as a state machine: a disk model is made and tesselate is     *)
(* called on lists of sites.                                               *)
(***************************************************************************)
TessModels == { <<"Poincare", 2>>, <<"Poincare", 3>>, <<"Klein", 2>> }

Site(a, b) == Vector_fromList(<< RNorm(<<a, 2>>), RNorm(<<b, 2>>), RInt(1) >>)

SiteLists ==
    { << Site(0, 0) >>, << Site(1, 0) >>, << Site(0, 1) >>,
      << Site(0, 0), Site(1, 0) >>, << Site(1, 0), Site(-1, 0) >> }

\* The square roots of KleinModel.chord are fractions for every painted
\* pixel and every site.
KleinExact(D, points) ==
    \A a \in { b \in TessPixels(D) : IsPainted(D, b) }, i \in 1..Len(points) :
        LET p == DiskModel_canvasToModel(D, a).value
        IN RHasRoot(KleinDiscriminant(p[1][1], p[2][1], points[i][1][1], points[i][2][1]))

PaintInit ==
    /\ Init
    /\ bulge = "regular"

NewModel(variant, r) ==
    /\ ~disk.inUse
    /\ disk' = [model |-> variant, calls |-> 0] @@ DiskModel(FrameOrigin, RInt(r))
    /\ UNCHANGED <<bulge, boundary, interior, chordCache, chordRes, sketch, tess, call>>

\* model.ts 151-188; the new colours are drawn by randInt, and the white
\* markers of the sites are drawn after the pixels.
DiskTesselate(points, fresh) ==
    /\ disk.inUse
    /\ disk.calls < MaxCalls
    /\ Len(fresh) = (IF Len(points) > Len(disk.cols) THEN Len(points) - Len(disk.cols) ELSE 0)
    /\ disk.model = "Klein" => KleinExact(disk, points)
    /\ LET cols == disk.cols \o fresh
       IN /\ disk' = [disk EXCEPT !.cols = cols, !.calls = @ + 1]
          /\ call' = [op |-> "tesselate", points |-> points, cols |-> cols,
                      painted |-> DiskModel_tesselate(disk, cols, points),
                      markers |-> { DiskModel_modelToCanvas(disk, points[i]) :
                                      i \in 1..Len(points) }]
    /\ UNCHANGED <<bulge, boundary, interior, chordCache, chordRes, sketch, tess>>

PaintNext ==
    \/ \E m \in TessModels : NewModel(m[1], m[2])
    \/ \E points \in SiteLists, n \in 0..2 : \E fresh \in [1..n -> Palette] :
          DiskTesselate(points, fresh)

PaintSpec == PaintInit /\ [][PaintNext]_vars

(***************************************************************************)
(* The operations of Matrix and Vector as a state machine: each call is    *)
(* recorded with its operands before the call, their mat arrays after it   *)
(* and its outcome.                                                        *)
(***************************************************************************)
\* Vectors of two and three coordinates; the coordinate 1/20000 is positive
\* and below EPSILON.
LinVectors ==
    { Vector_fromList(<<RInt(3), RInt(4)>>),
      Vector_fromList(<<RInt(1), RInt(0)>>),
      Vector_fromList(<<RInt(3), RInt(4), RInt(1)>>),
      Vector_fromList(<<RInt(6), RInt(8), RInt(2)>>),
      Vector_fromList(<<RInt(2), RInt(0), RInt(-1)>>),
      Vector_fromList(<<RInt(3), RInt(4), RInt(0)>>),
      Vector_fromList(<<RInt(0), RInt(3), RInt(4)>>),
      Vector_fromList(<<RInt(0), RInt(1), RNorm(<<1, 20000>>)>>),
      Vector_fromList(<<RInt(0), RInt(0), RInt(0)>>) }

LinMatrices ==
    { Matrix_identity(2), Matrix_identity(3),
      RMat(<< <<1, 2, 3>>, <<4, 5, 6>> >>),
      RMat(<< <<1, 2>>, <<3, 4>>, <<5, 6>> >>) } \cup LinVectors

LinScalars == { RInt(0), RInt(-2), RNorm(<<1, 2>>) }

LinalgInit ==
    /\ Init
    /\ bulge = "regular"

\* A call whose operands are left as they were.
LinalgCall(op, this, other, res) ==
    /\ call = NoCall
    /\ call' = [op |-> op, this |-> this, other |-> other,
                thisAfter |-> this, otherAfter |-> other, res |-> res]
    /\ UNCHANGED <<bulge, boundary, interior, chordCache, chordRes, sketch, tess, disk>>

MatrixMultiply(this, other) ==
    LinalgCall("Matrix.multiply", this, other, Matrix_multiply(this, other))

MatrixAdd(this, other) ==
    LinalgCall("Matrix.add", this, other, Matrix_add(this, other))

VectorAdd(this, other) ==
    LinalgCall("Vector.add", this, other, Vector_add(this, other))

VectorSubtract(this, other) ==
    LinalgCall("Vector.subtract", this, other, Vector_subtract(this, other))

VectorDot(this, other) ==
    LinalgCall("Vector.dot", this, other, Vector_dot(this, other))

VectorCross(this, other) ==
    LinalgCall("Vector.cross", this, other, Vector_cross(this, other))

VectorScale(this, c) ==
    /\ call = NoCall
    /\ call' = [op |-> "Vector.scale", this |-> this, other |-> << >>, c |-> c,
                thisAfter |-> this, otherAfter |-> << >>,
                res |-> Returned(Vector_scale(this, c))]
    /\ UNCHANGED <<bulge, boundary, interior, chordCache, chordRes, sketch, tess, disk>>

VectorNegate(this) ==
    LinalgCall("Vector.negate", this, << >>, Returned(Vector_negate(this)))

\* The norm is a fraction.
VectorNormalize(this) ==
    /\ RHasRoot(Vector_normSquared(this))
    /\ LinalgCall("Vector.normalize", this, << >>, Returned(Vector_normalize(this)))

\* The norm that the second branch takes is a fraction.
VectorHomogenize(this, idx) ==
    /\ call = NoCall
    /\ idx \in 0..(Rows(this) - 1)
    /\ RHasRoot(Vector_normSquared([this EXCEPT ![Rows(this)] = <<RInt(0)>>]))
    /\ LET r == Vector_homogenize(this, idx)
       IN call' = [op |-> "Vector.homogenize", this |-> this, other |-> << >>, idx |-> idx,
                   thisAfter |-> r.this, otherAfter |-> << >>,
                   res |-> Returned(r.value)]
    /\ UNCHANGED <<bulge, boundary, interior, chordCache, chordRes, sketch, tess, disk>>

LinalgNext ==
    \/ \E this, other \in LinMatrices : MatrixMultiply(this, other)
    \/ \E this, other \in LinMatrices : MatrixAdd(this, other)
    \/ \E this, other \in LinVectors : VectorAdd(this, other)
    \/ \E this, other \in LinVectors : VectorSubtract(this, other)
    \/ \E this, other \in LinVectors : VectorDot(this, other)
    \/ \E this, other \in LinVectors : VectorCross(this, other)
    \/ \E this \in LinVectors, c \in LinScalars : VectorScale(this, c)
    \/ \E this \in LinVectors : VectorNegate(this)
    \/ \E this \in LinVectors : VectorNormalize(this)
    \/ \E this \in LinVectors, idx \in 0..2 : VectorHomogenize(this, idx)

LinalgSpec == LinalgInit /\ [][LinalgNext]_vars

(***************************************************************************)
(* homogenize in rounded arithmetic.  The results of /, * and Math.sqrt    *)
(* are rounded to the nearest representable number; the representable      *)
(* numbers are the multiples of 1/Precision here, and an infinity or NaN   *)
(* stays what it is.                                                       *)
(***************************************************************************)
Precision == 100

Round(a) ==
    IF a[2] = 0 THEN a
    ELSE RNorm(<<(2 * a[1] * Precision + a[2]) \div (2 * a[2]), Precision>>)

RoundedMul(a, b) == Round(RMul(a, b))

RoundedDiv(a, b) == Round(RDiv(a, b))

\* Math.sqrt: the nearest multiple of 1/Precision to the root.
RoundedSqrt(a) ==
    IF IsNaNFrac(a) \/ a[1] < 0 THEN NaNFrac
    ELSE IF RIsInf(a) THEN a
    ELSE LET m == (4 * a[1] * Precision * Precision) \div a[2]
         IN RNorm(<<(ISqrt(m, 0, Min(m, 40000)) + 1) \div 2, Precision>>)

\* part_011 289-307: dot, norm and normalize of a vector, each operation
\* rounded.
RoundedNorm(this) ==
    RoundedSqrt(RSum([i \in 1..Rows(this) |-> RoundedMul(this[i][1], this[i][1])]))

RoundedNormalize(this) ==
    LET c == RoundedDiv(RInt(1), RoundedNorm(this))
    IN [i \in 1..Rows(this) |-> <<RoundedMul(this[i][1], c)>>]

\* part_011 309-321 with idx = this.rows - 1: the value returned and the
\* receiver's mat array after the call.
RoundedHomogenize(this) ==
    LET z == this[Rows(this)][1]
    IN IF FracLeq(EpsilonR, z)
       THEN [value |-> Vector_fromList([i \in 1..Len(this) |-> RoundedDiv(this[i][1], z)]),
             this |-> this]
       ELSE LET zeroed == [this EXCEPT ![Rows(this)] = <<RInt(0)>>]
            IN [value |-> RoundedNormalize(zeroed), this |-> zeroed]

\* part_011 191-203
Matrix_equals(this, other, epsilon) ==
    /\ Rows(this) = Rows(other)
    /\ Columns(this) = Columns(other)
    /\ \A i \in 1..Rows(this), j \in 1..Columns(this) :
          ~FracLess(epsilon, RAbs(RSub(this[i][j], other[i][j])))

Pivots == { RInt(-2), RInt(-1), RNorm(<<-1, 2>>), RNorm(<<1, 20000>>), RInt(0),
            RNorm(<<1, 2>>), RInt(1), RInt(3) }

HomVectors ==
    { Vector_fromList(<<RInt(x), RInt(y), z>>) : x \in -2..2, y \in -2..2, z \in Pivots }
    \cup { Vector_fromList(<<RInt(x), z>>) : x \in -2..2, z \in Pivots }

HomInit ==
    /\ Init
    /\ bulge = "regular"

\* v.homogenize().homogenize() and v.homogenize()
HomogenizeTwice(v) ==
    /\ call = NoCall
    /\ \E once \in { RoundedHomogenize(v) } :
       \E twice \in { RoundedHomogenize(once.value) } :
          call' = [op |-> "homogenize.homogenize", this |-> v, thisAfter |-> once.this,
                   once |-> once.value, twice |-> twice.value,
                   again |-> RoundedHomogenize(once.this).value]
    /\ UNCHANGED <<bulge, boundary, interior, chordCache, chordRes, sketch, tess, disk>>

HomNext == \E v \in HomVectors : HomogenizeTwice(v)

HomSpec == HomInit /\ [][HomNext]_vars

(***************************************************************************)
(* Edge.equals as a state machine: it is called on two edges whose         *)
(* endpoints are drawn from points that are equal, within EPSILON of each  *)
(* other, or far apart (coordinates in units of EPSILON).                  *)
(***************************************************************************)
EdgePoints == { Vec(0, 0), Vec(1, 0), Vec(2, 0), Vec(0, 5), Vec(5, 5) }

Edges == { Edge(a, b) : a, b \in EdgePoints }

EdgeInit ==
    /\ Init
    /\ bulge = "regular"

\* geometry.ts 17-20
EdgeEqualsCall(this, other) ==
    /\ call = NoCall
    /\ call' = [op |-> "Edge.equals", this |-> this, other |-> other,
                value |-> EdgeEquals(this, other)]
    /\ UNCHANGED <<bulge, boundary, interior, chordCache, chordRes, sketch, tess, disk>>

EdgeNext == \E this, other \in Edges : EdgeEqualsCall(this, other)

EdgeSpec == EdgeInit /\ [][EdgeNext]_vars

(***************************************************************************)
(* The Simplex constructor of geometry.ts on vertex lists of any length.   *)
(***************************************************************************)
MaxVertices == 4

\* geometry.ts 65-66: the edges pushed by the loop from index i on (i and
\* the vertex indices count from 0).
RECURSIVE SimplexEdges(_, _, _)
SimplexEdges(vertices, n, i) ==
    IF ~(i <= n) THEN << >>
    ELSE << Edge(vertices[i + 1], vertices[((i + 1) % Len(vertices)) + 1]) >>
         \o SimplexEdges(vertices, n, i + 1)

Simplex_constructorNoWrap(vertices) ==
    [n |-> Len(vertices) - 1,
     edges |-> [i \in 1..Len(vertices) |->
                  Edge(vertices[i], vertices[IF i < Len(vertices) THEN i + 1 ELSE i])],
     vertices |-> vertices]

\* geometry.ts 62-68
Simplex_constructor(vertices) ==
    [n |-> Len(vertices) - 1,
     edges |-> SimplexEdges(vertices, Len(vertices) - 1, 0),
     vertices |-> vertices]

VertexLists ==
    UNION { [1..k -> { Vec(0, 0), Vec(1, 0), Vec(0, 1) }] : k \in 0..MaxVertices }

SimplexInit ==
    /\ Init
    /\ bulge = "regular"

NewSimplex(vertices) ==
    /\ call = NoCall
    /\ call' = [op |-> "new Simplex", arg |-> vertices,
                simplex |-> Simplex_constructor(vertices)]
    /\ UNCHANGED <<bulge, boundary, interior, chordCache, chordRes, sketch, tess, disk>>

SimplexNext == \E vertices \in VertexLists : NewSimplex(vertices)

SimplexSpec == SimplexInit /\ [][SimplexNext]_vars

(***************************************************************************)
(* Simplex.circumcircle with the metric (v1, v2) => v1.subtract(v2).norm() *)
(* on triangles whose vertices <<x, y, 1>> have integer coordinates.       *)
(***************************************************************************)
\* Math.sqrt(r): NaN for r < 0 and for NaN.
MathSqrt(r) ==
    IF IsNaNFrac(r) \/ FracLess(r, RInt(0)) THEN DNaN
    ELSE [fn |-> "sqrt", of |-> r]

\* d(u, v) ** 2 for the Euclidean metric
EuclideanSquared(u, v) ==
    (u[1] - v[1]) * (u[1] - v[1]) + (u[2] - v[2]) * (u[2] - v[2])
    + (u[3] - v[3]) * (u[3] - v[3])

\* geometry.ts 76-87
EuclideanCayleyMenger(vs) ==
    [i \in 1..(Len(vs) + 1) |-> [j \in 1..(Len(vs) + 1) |->
        IF i = j THEN 0
        ELSE IF j = 1 THEN 1
        ELSE IF i = 1 THEN 1
        ELSE EuclideanSquared(vs[i - 1], vs[j - 1])]]

\* geometry.ts 75-107.  With Q = M.inverse(), D = det M and
\* C(j) = D * Q(0, j), the barycentric coordinates are C(i) / S with
\* S = C(1) + C(2) + C(3); mathjs inv throws for a singular matrix.
Simplex_circumcircle(vs) ==
    LET M == EuclideanCayleyMenger(vs)
        D == Det(M)
        C(j) == Cofactor(M, j + 1, 1)
        S == C(1) + C(2) + C(3)
        centre == [k \in 1..3 |->
                     << RSum([i \in 1..3 |-> RMul(RNorm(<<C(i), S>>), RInt(vs[i][k]))]) >>]
    IN IF D = 0 THEN Thrown
       ELSE Returned([centre |-> centre, radius |-> MathSqrt(RNorm(<<C(0), D>>))])

TrianglePoints == { V3(x, y) : x \in -1..1, y \in -1..1 }

TestTriangle == << V3(0, 0), V3(0, 1), V3(1, 0) >>

CircumInit ==
    /\ Init
    /\ bulge = "regular"

Circumcircle(vs) ==
    /\ call = NoCall
    /\ call' = [op |-> "circumcircle", vertices |-> vs, res |-> Simplex_circumcircle(vs)]
    /\ UNCHANGED <<bulge, boundary, interior, chordCache, chordRes, sketch, tess, disk>>

CircumNext ==
    \E a, b, c \in TrianglePoints :
       /\ Cardinality({a, b, c}) = 3
       /\ Circumcircle(<<a, b, c>>)

CircumSpec == CircumInit /\ [][CircumNext]_vars

\* ---------------------------------------------------------------------
\* The deduplication filter that ends bulgeSubgroup (model.ts 542-546):
\*   g.filter((m1, index, self) =>
\*       index === self.findIndex((m2) => m2.equals(m1, EPSILON)))
\* Indices are 1-based here; findIndex's -1 is 0.
\* ---------------------------------------------------------------------
MaxGroup == 3

findIndex(self, m1) ==
    IF \E j \in 1..Len(self) : Matrix_equals(self[j], m1, EpsilonR)
    THEN CHOOSE j \in 1..Len(self) :
            /\ Matrix_equals(self[j], m1, EpsilonR)
            /\ \A k \in 1..(j - 1) : ~Matrix_equals(self[k], m1, EpsilonR)
    ELSE 0

RetainedIndices(g) == { index \in 1..Len(g) : index = findIndex(g, g[index]) }

RECURSIVE FilterFrom(_, _, _)
FilterFrom(g, keep, i) ==
    IF i > Len(g) THEN << >>
    ELSE (IF i \in keep THEN << g[i] >> ELSE << >>) \o FilterFrom(g, keep, i + 1)

bulgeSubgroup_filter(g) == FilterFrom(g, RetainedIndices(g), 1)

\* Matrices of the kind bulgeSubgroup produces: the identity, two copies
\* of it that differ by EPSILON and 2 * EPSILON in one entry, a reflection,
\* and the non-finite matrices that the Cartan entry -1/bulge gives for
\* bulge 0.
Perturbed(k) ==
    [Matrix_identity(3) EXCEPT ![1][3] = <<k * EPSILON, GridPerUnit>>]

GroupMatrices ==
    { Matrix_identity(3), Perturbed(1), Perturbed(2),
      RMat(<< <<-1, 0, 0>>, <<0, 1, 0>>, <<0, 0, 1>> >>),
      [i \in 1..3 |-> [j \in 1..3 |-> NaNFrac]],
      [i \in 1..3 |-> [j \in 1..3 |-> IF j = 2 THEN NaNFrac
                                       ELSE IF i = 3 THEN PosInf ELSE NegInf]] }

DedupInit ==
    /\ Init
    /\ bulge = "regular"

Dedup(g) ==
    /\ call = NoCall
    /\ call' = [op |-> "dedup", g |-> g, retained |-> RetainedIndices(g),
                res |-> bulgeSubgroup_filter(g)]
    /\ UNCHANGED <<bulge, boundary, interior, chordCache, chordRes, sketch, tess, disk>>

DedupNext ==
    \E n \in 1..MaxGroup : \E g \in [1..n -> GroupMatrices] : Dedup(g)

DedupSpec == DedupInit /\ [][DedupNext]_vars

\* ---------------------------------------------------------------------
\* Calls of KleinModel.chord (model.ts 284-313) on pairs of distinct points
\* of the open unit disk for which the square root is a fraction: the
\* vertical and the horizontal chords and the chords through the origin
\* among them.
\* ---------------------------------------------------------------------
ChordGrid == 10

ChordCoordinates == { -6, -4, -3, 0, 3, 4, 6 }

KleinChordPoints ==
    { DiskPoint(a, b, ChordGrid) : a \in ChordCoordinates, b \in ChordCoordinates }

InsideUnitDisk(p) == FracLess(NormSq2(p), RInt(1))

KleinChordPairs ==
    { pq \in KleinChordPoints \X KleinChordPoints :
        /\ pq[1] # pq[2]
        /\ InsideUnitDisk(pq[1])
        /\ InsideUnitDisk(pq[2])
        /\ RHasRoot(KleinDiscriminant(pq[1].x, pq[1].y, pq[2].x, pq[2].y)) }

KleinChordInit ==
    /\ Init
    /\ bulge = "regular"

KleinChord(p, q) ==
    /\ call = NoCall
    /\ call' = [op |-> "chord", model |-> "Klein", p |-> p, q |-> q,
                edge |-> KleinModel_chord(p, q)]
    /\ UNCHANGED <<bulge, boundary, interior, chordCache, chordRes, sketch, tess, disk>>

KleinChordNext == \E pq \in KleinChordPairs : KleinChord(pq[1], pq[2])

KleinChordSpec == KleinChordInit /\ [][KleinChordNext]_vars

(***************************************************************************)
(* The boundary as a graph                                                 *)
(***************************************************************************)
BoundaryVertices == { boundary[i].v1 : i \in 1..Len(boundary) }
                    \cup { boundary[i].v2 : i \in 1..Len(boundary) }

IncidentEdges(v) ==
    { i \in 1..Len(boundary) : boundary[i].v1 = v \/ boundary[i].v2 = v }

\* The vertices reachable from the set R along boundary edges.
RECURSIVE ReachableFrom(_)
ReachableFrom(R) ==
    LET step == R \cup { boundary[i].v2 : i \in { k \in 1..Len(boundary) : boundary[k].v1 \in R } }
                  \cup { boundary[i].v1 : i \in { k \in 1..Len(boundary) : boundary[k].v2 \in R } }
    IN IF step = R THEN R ELSE ReachableFrom(step)

\* The same segment: the same two end points, in either order.
SameEdge(e, f) == {e.v1, e.v2} = {f.v1, f.v2}

TriangleEdges(P) == { Edge(P[1], P[2]), Edge(P[2], P[3]), Edge(P[3], P[1]) }

\* The reference triangle and the images setBulge adds for the parameter t.
TrianglesOf(t) ==
    LET g == bulgeSubgroup(t)
    IN { <<p1, p2, p3>> } \cup { g[i].P : i \in { k \in 1..Len(g) : ~g[k].identity } }

TrianglesWith(t, e) ==
    { P \in TrianglesOf(t) : \E f \in TriangleEdges(P) : SameEdge(e, f) }

AllTriangleEdges(t) == UNION { TriangleEdges(P) : P \in TrianglesOf(t) }

InBoundary(e) == \E i \in 1..Len(boundary) : SameEdge(boundary[i], e)

InInterior(e) == \E j \in 1..Len(interior) : SameEdge(interior[j], e)

(***************************************************************************)
(* Claims on setBulge                                                      *)
(***************************************************************************)
\* C1: after setBulge, every end point of a boundary edge is an end point
\* of exactly two boundary edges, and the boundary edges form one single
\* closed cycle.
C1_BoundaryIsOneClosedCycle ==
    /\ Len(boundary) >= 3
    /\ \A v \in BoundaryVertices : Cardinality(IncidentEdges(v)) = 2
    /\ \A v \in BoundaryVertices : ReachableFrom({v}) = BoundaryVertices

\* C2 as stated: after setBulge, no edge of boundary equals (Edge.equals)
\* an edge of interior.
C2_NoBoundaryEdgeInInterior ==
    \A i \in 1..Len(boundary) : \A j \in 1..Len(interior) :
        ~EdgeEquals(boundary[i], interior[j])

\* C2: after setBulge, every edge of boundary is also an element of
\* interior, and so equals (Edge.equals) an edge of interior: interior
\* accumulates every edge that was ever added, the outer ones included.
C2_BoundaryWithinInterior ==
    \A i \in 1..Len(boundary) :
        /\ \E j \in 1..Len(interior) : boundary[i] = interior[j]
        /\ \E j \in 1..Len(interior) : EdgeEquals(boundary[i], interior[j])

\* C2 witness: setBulge has added a triangle image and the boundary has
\* edges of that image, all of which are in interior.
C2_Witness ==
    /\ Len(interior) > 3
    /\ \E i \in 1..Len(boundary) : \A k \in 1..3 : boundary[i] # RefEdges[k]

\* C3: after setBulge has gone through all non-identity elements, an edge
\* is in boundary exactly when it belongs to exactly one triangle (the
\* reference triangle and the images), and interior has every edge of
\* every triangle.
C3_BoundaryIsEdgesOfOneTriangle ==
    /\ \A e \in AllTriangleEdges(bulge) :
          /\ InBoundary(e) <=> Cardinality(TrianglesWith(bulge, e)) = 1
          /\ InInterior(e)
    /\ \A i \in 1..Len(boundary) :
          \E e \in AllTriangleEdges(bulge) : SameEdge(boundary[i], e)

\* C4: after any sequence of setBulge calls, boundary and interior are
\* what a single setBulge with the last parameter builds on a freshly
\* constructed model.
C4_RebuildEqualsFresh ==
    [boundary |-> boundary, interior |-> interior] = setBulge(EmptyModel, bulge)

\* C4 witness: setBulge has run after a chord query, and an edge that
\* query cached from the earlier boundary is no edge of the model now.
C4_Witness ==
    /\ ~chordRes.called
    /\ \E k \in 3..Len(chordCache) :
          \A j \in 1..Len(interior) : chordCache[k] # interior[j]

(***************************************************************************)
(* Claims on chord                                                         *)
(***************************************************************************)
\* The ray casts of the last query against every boundary edge that is hit
\* (0 <= t2 <= 1).
AllHits ==
    LET ray == VecSubtract(chordRes.x, chordRes.y)
        cast(i) == rayCast(chordRes.x, ray, boundary[i].v1,
                           VecSubtract(boundary[i].v2, boundary[i].v1))
    IN { cast(i) : i \in { k \in 1..Len(boundary) :
                             /\ FracLeq(IntFrac(0), cast(k).t2)
                             /\ FracLeq(cast(k).t2, IntFrac(1)) } }

\* C5: chord returns the intersection points with the minimum and the
\* maximum t1 over all boundary edges whose t2 lies in [0,1], however
\* many edges are hit.
C5_ChordIsExtremeOverAllHits ==
    (chordRes.called /\ AllHits # {}) =>
        /\ \A h \in AllHits : FracLeq(chordRes.tMin, h.t1) /\ FracLeq(h.t1, chordRes.tMax)
        /\ \E h \in AllHits : FracEq(h.t1, chordRes.tMin) /\ RPointEq(h.ip, chordRes.a)
        /\ \E h \in AllHits : FracEq(h.t1, chordRes.tMax) /\ RPointEq(h.ip, chordRes.b)

C7_RebuildThenClearBeforeQueries ==
    sketch.running =>
        /\ \A i \in 1..Len(sketch.calls) :
              sketch.calls[i].op = "setBulge" =>
                 /\ sketch.calls[i].cacheKept
                 /\ \E j \in (i+1)..Len(sketch.calls) :
                       /\ sketch.calls[j].op = "clearChordCache"
                       /\ \A k \in (i+1)..(j-1) : sketch.calls[k].op # "chord"
        /\ \A i \in 1..Len(sketch.calls) :
              sketch.calls[i].op = "chord" => ~sketch.calls[i].stale
        /\ ~sketch.stale

\* C7 witness: a frame has called setBulge on a model whose chord cache
\* held edges, then clearChordCache, then chord.
C7_Witness ==
    /\ sketch.running
    /\ Len(sketch.calls) = 3
    /\ sketch.calls[1].op = "setBulge"
    /\ sketch.calls[1].stale
    /\ sketch.calls[2].op = "clearChordCache"
    /\ sketch.calls[3].op = "chord"

(***************************************************************************)
(* Claims on KleinModel.tesselate                                          *)
(***************************************************************************)
HasSuperVertex(t) ==
    \E j \in 1..3 : \E k \in 1..3 : t.vertices[k] = superTriangle.vertices[j]

\* C8: for every list of input points, after the clean-up loop the
\* triangulation has no triangle with a super-triangle vertex.
C8_NoSuperTriangleVertexLeft ==
    (tess.mode = "tesselate" /\ tess.called /\ ~tess.threw) =>
        \A k \in 1..Len(tess.triangulation) : ~HasSuperVertex(tess.triangulation[k])

\* C8 witness: tesselate has returned for a list of two or more points.
C8_Witness ==
    /\ tess.mode = "tesselate"
    /\ tess.called
    /\ ~tess.threw
    /\ Len(tess.points) >= 2

\* C9: for every list of input points, each input point is a vertex of at
\* least one triangle of the final triangulation.
C9_EveryPointIsAVertex ==
    (tess.mode = "tesselate" /\ tess.called) =>
        \A i \in 1..Len(tess.points) :
            \E k \in 1..Len(tess.triangulation) : \E v \in 1..3 :
                tess.triangulation[k].vertices[v] = tess.points[i]

\* The bad triangles that have the segment of the edge e as an edge.
BadTrianglesWithEdge(e) ==
    { j \in 1..Len(tess.badTriangles) :
        \E k \in 1..3 :
            {tess.badTriangles[j].edges[k].ends[1], tess.badTriangles[j].edges[k].ends[2]}
                = {e.ends[1], e.ends[2]} }

C11_MetricIsSymmetric ==
    call.op = "d" =>
        CASE call.model = "Poincare" ->
                DEq(call.value, PoincareModel_d(call.q, call.p))
          [] call.model = "Klein" ->
                /\ DEq(call.value, KleinModel_d(call.q, call.p))
                /\ REq(call.cr, KleinModel_crossRatio(call.q, call.p).sq)
          [] call.model = "ConvexProjective" ->
                Len(boundary) > 0 =>
                    /\ DEq(call.value, d(boundary, chordCache, call.q, call.p).value)
                    /\ REq(call.cr, crossRatio(boundary, chordCache, call.q, call.p).sq)

\* C12: in each of the three models d(p, p) is 0 for an interior point p.
C12_DistanceToSelfIsZero ==
    (call.op = "d" /\ call.p = call.q
        /\ (call.model = "ConvexProjective" => Len(boundary) > 0))
    => DIsZero(call.value)

\* C13: for every model variant and every frame stack reachable through
\* push, pop and transfrom, canvasToModel(modelToCanvas(p)) returns p and
\* modelToCanvas(canvasToModel(a)) returns a.
C13_CanvasMapsAreInverses ==
    /\ call.op = "canvasToModel(modelToCanvas)"
         => ~call.result.throws /\ VectorEq(call.result.value, call.p)
    /\ call.op = "modelToCanvas(canvasToModel)"
         => ~call.result.throws /\ CanvasEq(call.result.value, call.p)

\* The points of the box of a step that satisfy the tolerance and whose
\* planar displacement from the current point has a strictly positive dot
\* product with the co-orientation vector.
PlanarDot(coorient, a, b) ==
    RAdd(RMul(coorient[1][1], RSub(a.x, b.x)), RMul(coorient[2][1], RSub(a.y, b.y)))

Displacement(a, b) ==
    RAdd(RMul(RSub(a.x, b.x), RSub(a.x, b.x)), RMul(RSub(a.y, b.y), RSub(a.y, b.y)))

ForwardPoints(F, coorient, step) ==
    { r \in { BoxPoint(step.from, n) : n \in 1..(BoxSide * BoxSide) } :
        /\ FracLess(DiffAt(F, r), step.epsilon)
        /\ FracLess(RInt(0), PlanarDot(coorient, r, step.from)) }

\* C14: each step of drawBisectorContinue moves to a tolerance-satisfying
\* point of the box whose planar displacement has a strictly positive dot
\* product with the co-orientation vector, one with the largest
\* displacement, and stays where it is when there is no such point.
C14_WalkNeverMovesBackwards ==
    call.op = "drawBisectorContinue" /\ ~call.result.throws
    => \A k \in 1..Len(call.result.value.steps) :
          LET step == call.result.value.steps[k]
              forward == ForwardPoints(call.F, call.coorient, step)
          IN IF forward = {} THEN step.to = step.from
             ELSE /\ step.to \in forward
                  /\ \A r \in forward :
                        FracLeq(Displacement(r, step.from), Displacement(step.to, step.from))

\* C15: both walks of drawBisector start from the caller's epsilon, and the
\* steps of the second walk (positions and tolerances) are those of the walk
\* from the seed with the negated co-orientation vector, whatever the first
\* walk found.
C15_SecondWalkIndependentOfFirst ==
    call.op = "drawBisector" /\ ~call.result.throws
    => LET res == call.result.value
           alone == drawBisectorContinue(call.F, WalkScale, res.midpoint,
                        Vector_negate(res.coorient), << res.midpoint >>, call.epsilon).value
       IN /\ res.first.steps[1].epsilon = call.epsilon
          /\ res.second.steps[1].epsilon = call.epsilon
          /\ res.second.steps = alone.steps

\* The greatest length of a word of a list.
RECURSIVE Pow3(_)
Pow3(n) == IF n = 0 THEN 1 ELSE 3 * Pow3(n - 1)

LongestWord(g) == Len(g[Len(g)])

\* The number of words over r1, r2, r3 of length 1..L
WordsUpTo(L) == (Pow3(L + 1) - 3) \div 2

\* C16: the list of bulgeSubgroup before the filter holds exactly the words
\* of length 1 up to one bound L, for every number of steps: the words of
\* a list are distinct and of length at most its longest word, so the list
\* is that set exactly when it has as many entries as there are words up to
\* the length of its longest word.
C16_ExactlyWordsUpToBound ==
    call.op = "bulgeSubgroup"
    => /\ \A k \in 1..Len(call.g) : Len(call.g[k]) <= LongestWord(call.g)
       /\ Cardinality({ call.g[k] : k \in 1..Len(call.g) }) = WordsUpTo(LongestWord(call.g))

\* d(p, site_i) <= d(p, site_j) for distances that are not NaN
DLeq(u, v) == u.fn # "NaN" /\ v.fn # "NaN" /\ FracLeq(u.of, v.of)

\* The sites at minimal distance from the model point of the pixel a.
NearestSites(a) ==
    LET p == DiskModel_canvasToModel(disk, a).value
        dist == [i \in 1..Len(call.points) |-> DiskModel_d(disk.model, p, call.points[i])]
    IN { i \in 1..Len(call.points) :
           \A j \in 1..Len(call.points) : DLeq(dist[i], dist[j]) }

\* C17: every pixel tesselate paints has the colour cols[i] of the site of
\* lowest index among the sites at minimal distance from it.
C17_PixelHasColourOfNearestSite ==
    call.op = "tesselate"
    => \A a \in DOMAIN call.painted :
          \E near \in { NearestSites(a) } :
             /\ near # {}
             /\ call.painted[a] = call.cols[CHOOSE i \in near : \A j \in near : i <= j]

(***************************************************************************)
(* Shapes, homogenize and the operands of the Vector operations.           *)
(***************************************************************************)
ShapeOps == { "Matrix.multiply", "Matrix.add", "Vector.add", "Vector.subtract", "Vector.dot" }

\* The operand shapes of the recorded call are incompatible.
Incompatible ==
    IF call.op = "Matrix.multiply"
    THEN Columns(call.this) # Rows(call.other)
    ELSE Rows(call.this) # Rows(call.other) \/ Columns(call.this) # Columns(call.other)

\* C18: multiply, add, subtract and dot raise an error when the shapes of
\* the operands are incompatible, and leave both operands as they were.
C18_MismatchedShapesRaise ==
    (call.op \in ShapeOps /\ Incompatible)
    => /\ call.res.throws
       /\ call.thisAfter = call.this
       /\ call.otherAfter = call.other

IsSmall(z) == FracLess(RAbs(z), EpsilonR)

\* What homogenize(idx) is to return for the vector v.
Homogenized(v, idx) ==
    LET z == v[idx + 1][1]
    IN IF IsSmall(z)
       THEN Vector_normalize([v EXCEPT ![idx + 1] = <<RInt(0)>>])
       ELSE Vector_fromList([i \in 1..Rows(v) |-> RDiv(v[i][1], z)])

\* C19: homogenize(idx) divides every coordinate by the coordinate at idx
\* when its magnitude is at least EPSILON, and otherwise zeroes the
\* coordinate at idx and normalizes (checked when that norm is a fraction).
C19_HomogenizeDividesOrZeroes ==
    (/\ call.op = "Vector.homogenize"
     /\ RHasRoot(Vector_normSquared([call.this EXCEPT ![call.idx + 1] = <<RInt(0)>>])))
    => call.res.value = Homogenized(call.this, call.idx)

VectorOps ==
    { "Vector.scale", "Vector.negate", "Vector.add", "Vector.subtract", "Vector.cross",
      "Vector.dot", "Vector.normalize", "Vector.homogenize" }

\* C20: no Vector operation changes the coordinates of its receiver or of
\* its argument.
C20_VectorOperationsKeepOperands ==
    call.op \in VectorOps
    => /\ call.thisAfter = call.this
       /\ call.otherAfter = call.other

(***************************************************************************)
(* homogenize twice                                                        *)
(***************************************************************************)
\* C21: for a vector whose last coordinate is not zero,
\* v.homogenize().homogenize() equals v.homogenize() (equals with its
\* default tolerance 0).
C21_HomogenizeIsIdempotent ==
    (/\ call.op = "homogenize.homogenize"
     /\ ~REq(call.this[Rows(call.this)][1], RInt(0)))
    => Matrix_equals(call.twice, call.again, RInt(0))

(***************************************************************************)
(* Edges as unordered pairs                                                *)
(***************************************************************************)
\* The two edges have the same two endpoints, in this order or the other,
\* each endpoint compared with tolerance EPSILON.
SameEndpoints(e, o) ==
    \/ VecEquals(e.v1, o.v1, EPSILON) /\ VecEquals(e.v2, o.v2, EPSILON)
    \/ VecEquals(e.v1, o.v2, EPSILON) /\ VecEquals(e.v2, o.v1, EPSILON)

\* C22: Edge.equals returns true exactly when the two edges have the same
\* two endpoints as an unordered pair.
C22_EdgeEqualsIsUnorderedPairEquality ==
    call.op = "Edge.equals"
    => (call.value <=> SameEndpoints(call.this, call.other))

(***************************************************************************)
(* The edges of a simplex                                                  *)
(***************************************************************************)
\* C23: for a vertex list v0..vn the constructor sets n to length - 1 and
\* builds n + 1 edges, the i-th joining v_i and v_((i + 1) mod (n + 1)).
C23_SimplexEdgesAreCyclic ==
    call.op = "new Simplex"
    => LET v == call.arg
           S == call.simplex
       IN /\ S.n = Len(v) - 1
          /\ S.vertices = v
          /\ Len(S.edges) = S.n + 1
          /\ \A i \in 0..S.n :
                /\ S.edges[i + 1].v1 = v[i + 1]
                /\ S.edges[i + 1].v2 = v[((i + 1) % (S.n + 1)) + 1]

\* A simplex of three different vertices was built; its last edge goes back
\* to the first vertex.
C23_Witness ==
    /\ call.op = "new Simplex"
    /\ Len(call.arg) = 3
    /\ Cardinality({ call.arg[i] : i \in 1..3 }) = 3
    /\ call.simplex.edges[3] = Edge(call.arg[3], call.arg[1])

(***************************************************************************)
(* The circumcircle of a triangle                                          *)
(***************************************************************************)
\* C24: on the triangle (0,0,1), (0,1,1), (1,0,1) circumcircle returns the
\* centre with x = y = 1/2 and the radius sqrt(1/2), and for every triangle
\* that is not degenerate the radius is the root of a non-negative number.
C24_CircumcircleOfTestTriangle ==
    (call.op = "circumcircle" /\ ~call.res.throws)
    => /\ call.res.value.radius.fn # "NaN"
       /\ call.vertices = TestTriangle
          => /\ call.res.value.centre[1][1] = <<1, 2>>
             /\ call.res.value.centre[2][1] = <<1, 2>>
             /\ call.res.value.radius = MathSqrt(<<1, 2>>)

(***************************************************************************)
(* The chord cache between queries                                         *)
(***************************************************************************)
\* The edges that a chord cache holds.
StoredEdges(cache) == SelectSeq(cache, LAMBDA e : e # NullEdge)

\* C25: a query made while the chord cache holds edges stored by an earlier
\* query tests those edges before it scans the boundary.
C25_CachedEdgesAreTestedFirst ==
    (chordRes.called /\ Len(StoredEdges(chordRes.cacheBefore)) > 0)
    => chordRes.cacheTested > 0

\* C26: the chord cache never holds more than two entries.
C26_ChordCacheHoldsAtMostTwo == Len(chordCache) <= 2

(***************************************************************************)
(* The tolerance of the walks                                              *)
(***************************************************************************)
\* The tolerance of the walk W stays positive and never grows, and at
\* every shrink bisectingPoints holds at least two points.
ShrinksProperly(W) ==
    /\ \A k \in 1..Len(W.steps) :
          /\ W.steps[k].found >= 2
          /\ FracLess(RInt(0), W.steps[k].epsilon)
          /\ k < Len(W.steps) => FracLeq(W.steps[k + 1].epsilon, W.steps[k].epsilon)
    /\ FracLess(RInt(0), W.epsilon)
    /\ Len(W.steps) > 0 => FracLeq(W.epsilon, W.steps[Len(W.steps)].epsilon)

\* C27: in both walks of a drawBisector call with a positive epsilon that
\* found a seed, epsilon stays strictly positive and never increases, and
\* at least two points have been found at every shrink.
C27_EpsilonStaysPositive ==
    (/\ call.op = "drawBisector"
     /\ ~call.result.throws
     /\ FracLess(RInt(0), call.epsilon))
    => /\ ShrinksProperly(call.result.value.first)
       /\ ShrinksProperly(call.result.value.second)

\* drawBisector found a seed and both walks made their steps with
\* tolerances smaller than the caller's at the end.
C27_Witness ==
    /\ call.op = "drawBisector"
    /\ ~call.result.throws
    /\ Len(call.result.value.first.steps) = 2
    /\ Len(call.result.value.second.steps) = 2
    /\ FracLess(call.result.value.first.epsilon, call.epsilon)
    /\ FracLess(call.result.value.second.epsilon, call.result.value.second.steps[2].epsilon)

\* C28: after the deduplication filter of bulgeSubgroup no two retained
\* matrices are equal within EPSILON, and every dropped matrix is equal
\* within EPSILON to some retained matrix.
C28_DedupKeepsOneOfEachClass ==
    call.op = "dedup" =>
       /\ \A i, j \in call.retained :
             i # j => ~Matrix_equals(call.g[i], call.g[j], EpsilonR)
       /\ \A i \in (1..Len(call.g)) \ call.retained :
             \E j \in call.retained : Matrix_equals(call.g[j], call.g[i], EpsilonR)

\* C29: DiskModel frame stack: after push(), any number of transfrom(T)
\* calls and then pop(), the top frame and every frame below it are the
\* transformations they were before the push; transfrom(T) replaces only
\* the top frame, by T composed with the old top, and never changes the
\* size of the stack.
C29_FrameStackIsScoped ==
    /\ (call.op = "pop" /\ call.model = "Disk" /\ call.mark.set) =>
          disk.frameStack = call.mark.stack
    /\ (call.op = "transfrom" /\ call.model = "Disk") =>
          /\ Len(disk.frameStack) = Len(call.before)
          /\ ~call.throws =>
                /\ \A i \in 1..(Len(call.before) - 1) :
                      disk.frameStack[i] = call.before[i]
                /\ disk.frameStack[Len(call.before)] =
                      Matrix_multiply(call.T, call.before[Len(call.before)]).value

\* r lies on the line through p and q: the cross product of q - p and
\* r - p is 0.
OnLine(p, q, r) ==
    REq(RMul(RSub(q.x, p.x), RSub(r.y, p.y)),
        RMul(RSub(q.y, p.y), RSub(r.x, p.x)))

\* C30: KleinModel.chord(p, q), for distinct points p, q strictly inside the
\* unit disk, vertical chords (p and q with the same x-coordinate)
\* included, returns two points that both lie on the line through p and q.
C30_KleinChordEndsLieOnTheLine ==
    (call.op = "chord" /\ call.model = "Klein") =>
       /\ OnLine(call.p, call.q, call.edge.v1)
       /\ OnLine(call.p, call.q, call.edge.v2)

====
